---- MODULE Spec2Model ----
(***************************************************************************)
(* A model of the UNNC pseudocode compiler/interpreter (src/main.py): the  *)
(* persistent list/tree library, the expression evaluator, the block       *)
(* interpreter (run_lines and its nested handlers), the execution driver   *)
(* (execute_algorithm) and the batch case loop that drives them.           *)
(*                                                                         *)
(* Source text is modelled at token level: a statement line is a sequence  *)
(* of tokens (strings), an algorithm body a sequence of lines.  Every      *)
(* dispatch the code makes on the text of a line (startswith, "in",        *)
(* split, the regular expressions) is made here on the tokens.             *)
(***************************************************************************)
EXTENDS Integers, Sequences, FiniteSets, TLC

(***************************************************************************)
(* DSL values.  Python values of different types are kept apart by a tag;  *)
(* every value is a record of the same shape:                              *)
(*   t : the type tag, n : integer payload, x : string payload,            *)
(*   s : sequence payload (list items, tree children).                     *)
(***************************************************************************)
Val(t, n, x, s) == [t |-> t, n |-> n, x |-> x, s |-> s]
IntV(k)          == Val("int", k, "", <<>>)
Bool(b)         == Val("bool", IF b THEN 1 ELSE 0, "", <<>>)
StrV(a)         == Val("str", 0, a, <<>>)
NoneV           == Val("none", 0, "", <<>>)
Nil             == Val("nil", 0, "", <<>>)
leaf            == Val("leaf", 0, "", <<>>)
ListV(items)    == Val("list", 0, "", items)
PyList(items)   == Val("pylist", 0, "", items)
BuiltinV(name)  == Val("builtin", 0, name, <<>>)
LambdaV(name)   == Val("lambda", 0, name, <<>>)

IsNum(v)  == v.t \in {"int", "bool"}
IsList(v) == v.t = "list"

\* Python truth value of v, as `if v:` and `while v:` take it.
Truthy(v) ==
    CASE v.t \in {"int", "bool"} -> v.n # 0
      [] v.t = "none"            -> FALSE
      [] v.t = "str"             -> v.x # ""
      [] v.t = "pylist"          -> v.s # <<>>
      [] OTHER                   -> TRUE

(***************************************************************************)
(* Errors.  A raised exception is a record: its Python class, the fixed    *)
(* part of its message, and the identifier and numbers the message names.  *)
(* `cause` is the message of the exception a ValueError of eval_expr wraps.*)
(***************************************************************************)
Err(kind, what, name, a, b) ==
    [kind |-> kind, what |-> what, cause |-> "", name |-> name, a |-> a, b |-> b]
NoErr == Err("", "", "", 0, 0)

\* The outcome of a builtin: a value, or a raised exception.
Ok(v)    == [st |-> "ok", val |-> v, err |-> NoErr]
Raise(e) == [st |-> "err", val |-> NoneV, err |-> e]

(***************************************************************************)
(* Core data structures (DSL)                                              *)
(***************************************************************************)
cons(x, L) ==
    IF L = Nil THEN Ok(ListV(<<x>>))
    ELSE IF IsList(L) THEN Ok(ListV(<<x>> \o L.s))
    ELSE Raise(Err("ValueError", "cons expects a list", "", 0, 0))

isEmpty(L) == L = Nil \/ (IsList(L) /\ Len(L.s) = 0)

value(L) ==
    IF L = Nil THEN Raise(Err("ValueError", "value on empty list", "", 0, 0))
    ELSE IF IsList(L) /\ Len(L.s) > 0 THEN Ok(L.s[1])
    ELSE Raise(Err("ValueError", "value expects a non-empty list", "", 0, 0))

tail(L) ==
    IF L = Nil THEN Raise(Err("ValueError", "tail on empty list", "", 0, 0))
    ELSE IF IsList(L)
         THEN Ok(IF Len(L.s) > 1 THEN ListV(Tail(L.s)) ELSE Nil)
    ELSE Raise(Err("ValueError", "tail expects a non-empty list", "", 0, 0))

RECURSIVE merge(_, _)
merge(L1, L2) ==
    IF isEmpty(L1) THEN Ok(L2)
    ELSE IF isEmpty(L2) THEN Ok(L1)
    ELSE LET first == value(L1)
             rest0 == tail(L1)
         IN  IF first.st = "err" THEN first
             ELSE IF rest0.st = "err" THEN rest0
             ELSE LET rest == merge(rest0.val, L2)
                  IN  IF rest.st = "err" THEN rest ELSE cons(first.val, rest.val)

node(left_subtree, x, right_subtree) ==
    Val("tree", 0, "", <<left_subtree, x, right_subtree>>)

isLeaf(t) == t = leaf

\* t[k] for the accessors below: t is not the leaf, so it is indexed as a
\* Python tuple ("tree", l, x, r) or ("list", items); k counts from 0.
TreeField(t, k, what) ==
    IF isLeaf(t) THEN Raise(Err("ValueError", what, "", 0, 0))
    ELSE IF t.t = "tree" THEN Ok(t.s[k])
    ELSE IF t.t = "list"
         THEN IF k = 1 THEN Ok(PyList(t.s))
              ELSE Raise(Err("IndexError", "tuple index out of range", "", 0, 0))
    ELSE Raise(Err("TypeError", "not subscriptable", "", 0, 0))

root(t)  == TreeField(t, 2, "root on leaf")
left(t)  == TreeField(t, 1, "left on leaf")
right(t) == TreeField(t, 3, "right on leaf")

RECURSIVE size(_)
size(t) ==
    IF isLeaf(t) THEN Ok(IntV(0))
    ELSE LET l == left(t)
             r == right(t)
         IN  IF l.st = "err" THEN l
             ELSE LET left_size == size(l.val)
                  IN  IF left_size.st = "err" THEN left_size
                      ELSE IF r.st = "err" THEN r
                      ELSE LET right_size == size(r.val)
                           IN  IF right_size.st = "err" THEN right_size
                               ELSE Ok(IntV(1 + left_size.val.n + right_size.val.n))

(***************************************************************************)
(* Tokens.  ASCII stand-ins are used for the non-ASCII characters of the   *)
(* language: "<-" is the assignment arrow of `name <- expr`.  The model    *)
(* covers the integer literals 0..10 and the operators listed below.       *)
(***************************************************************************)
NumToks == {"0", "1", "2", "3", "4", "5", "6", "7", "8", "9", "10"}

NumVal(tok) ==
    CASE tok = "0" -> 0 [] tok = "1" -> 1 [] tok = "2" -> 2 [] tok = "3" -> 3
      [] tok = "4" -> 4 [] tok = "5" -> 5 [] tok = "6" -> 6 [] tok = "7" -> 7
      [] tok = "8" -> 8 [] tok = "9" -> 9 [] tok = "10" -> 10

CmpOps == {"<", ">", "<=", ">=", "==", "!="}
Punct  == {"(", ")", ",", "+", "-", "*", "%", "=", "<-", ";", ":", "&&", "||"}
              \cup CmpOps

\* [A-Za-z_]\w* : a token that is neither a number nor punctuation.
IsIdent(tok) == tok \notin NumToks \cup Punct

\* "=" in s, for one token of s.
HasEq(tok) == tok \in {"=", "==", "<=", ">=", "!="}

\* The text of a token sequence, as a dictionary key or an identifier.
RECURSIVE Text(_)
Text(toks) ==
    IF toks = <<>> THEN ""
    ELSE IF Len(toks) = 1 THEN toks[1]
    ELSE toks[1] \o " " \o Text(Tail(toks))

(***************************************************************************)
(* Expression evaluation                                                   *)
(***************************************************************************)
normalize_tok(tok) ==
    CASE tok = "mod"            -> "%"
      [] tok \in {"AND", "&&"}  -> "and"
      [] tok \in {"OR", "||"}   -> "or"
      [] tok = "NOT"            -> "not"
      [] tok = "X"              -> "*"
      [] OTHER                  -> tok

normalize_ops(expr) ==
    LET kept == SelectSeq(expr, LAMBDA tok : tok # ";")
    IN  [i \in 1..Len(kept) |-> normalize_tok(kept[i])]

\* -?\d+ (the literals the model covers are integers, Nil and leaf)
parse_literal(token) ==
    IF token = <<"Nil">> THEN Nil
    ELSE IF token = <<"leaf">> THEN leaf
    ELSE IF Len(token) = 1 /\ token[1] \in NumToks THEN IntV(NumVal(token[1]))
    ELSE IF Len(token) = 2 /\ token[1] = "-" /\ token[2] \in NumToks
         THEN IntV(0 - NumVal(token[2]))
    ELSE NoneV

(***************************************************************************)
(* The host language's expression parser, as eval() applies it to the      *)
(* normalized text: or < and < not < comparisons < +,- < *,% < unary -     *)
(* < call.  A parse yields the syntax tree and the tokens left over.       *)
(***************************************************************************)
PyKeywords == {"and", "or", "not", "True", "False", "None"}

POk(ast, rest) == [ok |-> TRUE, ast |-> ast, rest |-> rest]
PFail          == [ok |-> FALSE, ast |-> [k |-> "fail"], rest |-> <<>>]

(***************************************************************************)
(* State: the Environment (env.funcs, env.globals), the outputs of the     *)
(* batch, the position of the main script, and the record of the last      *)
(* case executed; lib is the state of a use of the list library on its own.*)
(***************************************************************************)
VARIABLES funcs, globals, outputs, pc, done, last, lib

vars == <<funcs, globals, outputs, pc, done, last, lib>>

\* The parser's productions call each other, and the evaluator and the
\* interpreter below call each other and the parser: a call from one of them
\* to another is written Call("name", <<arguments>>).
RECURSIVE Call(_, _)

ParseOr(toks) ==
    LET l == Call("ParseAnd", <<toks>>) IN IF l.ok THEN Call("ParseOrTail", <<l.ast, l.rest>>) ELSE PFail

ParseOrTail(lhs, toks) ==
    IF toks # <<>> /\ toks[1] = "or"
    THEN LET r == Call("ParseAnd", <<Tail(toks)>>)
         IN  IF r.ok THEN Call("ParseOrTail", <<[k |-> "or", l |-> lhs, r |-> r.ast], r.rest>>)
             ELSE PFail
    ELSE POk(lhs, toks)

ParseAnd(toks) ==
    LET l == Call("ParseNot", <<toks>>) IN IF l.ok THEN Call("ParseAndTail", <<l.ast, l.rest>>) ELSE PFail

ParseAndTail(lhs, toks) ==
    IF toks # <<>> /\ toks[1] = "and"
    THEN LET r == Call("ParseNot", <<Tail(toks)>>)
         IN  IF r.ok THEN Call("ParseAndTail", <<[k |-> "and", l |-> lhs, r |-> r.ast], r.rest>>)
             ELSE PFail
    ELSE POk(lhs, toks)

ParseNot(toks) ==
    IF toks # <<>> /\ toks[1] = "not"
    THEN LET a == Call("ParseNot", <<Tail(toks)>>)
         IN  IF a.ok THEN POk([k |-> "not", a |-> a.ast], a.rest) ELSE PFail
    ELSE Call("ParseCmp", <<toks>>)

\* a chained comparison  a0 op1 a1 op2 a2 ...
ParseCmp(toks) ==
    LET l == Call("ParseArith", <<toks>>)
    IN  IF l.ok THEN Call("ParseCmpTail", <<l.ast, <<>>, <<>>, l.rest>>) ELSE PFail

ParseCmpTail(first, ops, rands, toks) ==
    IF toks # <<>> /\ toks[1] \in CmpOps
    THEN LET r == Call("ParseArith", <<Tail(toks)>>)
         IN  IF r.ok
             THEN Call("ParseCmpTail", <<first, Append(ops, toks[1]), Append(rands, r.ast), r.rest>>)
             ELSE PFail
    ELSE IF ops = <<>> THEN POk(first, toks)
    ELSE POk([k |-> "cmp", first |-> first, ops |-> ops, rands |-> rands], toks)

ParseArith(toks) ==
    LET l == Call("ParseTerm", <<toks>>) IN IF l.ok THEN Call("ParseArithTail", <<l.ast, l.rest>>) ELSE PFail

ParseArithTail(lhs, toks) ==
    IF toks # <<>> /\ toks[1] \in {"+", "-"}
    THEN LET r == Call("ParseTerm", <<Tail(toks)>>)
         IN  IF r.ok
             THEN Call("ParseArithTail", <<[k |-> "bin", op |-> toks[1], l |-> lhs, r |-> r.ast],
                                 r.rest>>)
             ELSE PFail
    ELSE POk(lhs, toks)

ParseTerm(toks) ==
    LET l == Call("ParseFactor", <<toks>>) IN IF l.ok THEN Call("ParseTermTail", <<l.ast, l.rest>>) ELSE PFail

ParseTermTail(lhs, toks) ==
    IF toks # <<>> /\ toks[1] \in {"*", "%"}
    THEN LET r == Call("ParseFactor", <<Tail(toks)>>)
         IN  IF r.ok
             THEN Call("ParseTermTail", <<[k |-> "bin", op |-> toks[1], l |-> lhs, r |-> r.ast],
                                r.rest>>)
             ELSE PFail
    ELSE POk(lhs, toks)

ParseFactor(toks) ==
    IF toks = <<>> THEN PFail
    ELSE IF toks[1] \in {"-", "+"}
         THEN LET a == Call("ParseFactor", <<Tail(toks)>>)
              IN  IF a.ok THEN POk([k |-> "unary", op |-> toks[1], a |-> a.ast], a.rest)
                  ELSE PFail
    ELSE IF toks[1] = "("
         THEN LET e == Call("ParseOr", <<Tail(toks)>>)
              IN  IF e.ok /\ e.rest # <<>> /\ e.rest[1] = ")"
                  THEN Call("ParseTrailers", <<e.ast, Tail(e.rest)>>)
                  ELSE PFail
    ELSE IF toks[1] \in NumToks
         THEN Call("ParseTrailers", <<[k |-> "num", n |-> NumVal(toks[1])], Tail(toks)>>)
    ELSE IF toks[1] \in {"True", "False", "None"}
         THEN Call("ParseTrailers", <<[k |-> "const", x |-> toks[1]], Tail(toks)>>)
    ELSE IF IsIdent(toks[1]) /\ toks[1] \notin PyKeywords
         THEN Call("ParseTrailers", <<[k |-> "name", x |-> toks[1]], Tail(toks)>>)
    ELSE PFail

\* call trailers: atom ( args ) ( args ) ...
ParseTrailers(atom, toks) ==
    IF toks # <<>> /\ toks[1] = "("
    THEN IF Len(toks) >= 2 /\ toks[2] = ")"
         THEN Call("ParseTrailers", <<[k |-> "call", f |-> atom, args |-> <<>>], Tail(Tail(toks))>>)
         ELSE LET a == Call("ParseArgs", <<<<>>, Tail(toks)>>)
              IN  IF a.ok THEN Call("ParseTrailers", <<[k |-> "call", f |-> atom, args |-> a.ast],
                                             a.rest>>)
                  ELSE PFail
    ELSE POk(atom, toks)

\* arguments up to and including the closing parenthesis (a trailing comma
\* is allowed, as in the host language)
ParseArgs(acc, toks) ==
    LET e == Call("ParseOr", <<toks>>)
    IN  IF ~e.ok \/ e.rest = <<>> THEN PFail
        ELSE IF e.rest[1] = ")" THEN POk(Append(acc, e.ast), Tail(e.rest))
        ELSE IF e.rest[1] = ","
             THEN IF Len(e.rest) >= 2 /\ e.rest[2] = ")"
                  THEN POk(Append(acc, e.ast), Tail(Tail(e.rest)))
                  ELSE Call("ParseArgs", <<Append(acc, e.ast), Tail(e.rest)>>)
        ELSE PFail

\* compile(py_expr, mode "eval"): the whole text must be one expression
PyParse(py_expr) ==
    LET e == Call("ParseOr", <<py_expr>>) IN IF e.ok /\ e.rest = <<>> THEN e ELSE PFail

(***************************************************************************)
(* The interpreter's memory.  Python dictionaries are objects reached by   *)
(* reference, so scopes live in a heap: heap[GLOBALS] is env.globals, a    *)
(* local_env is the index of its dictionary.  A machine state m carries    *)
(*   heap, funcs : the dictionaries and env.funcs,                         *)
(*   loc         : the reference held by the running code's local_env     *)
(*                 (0 is Python's None),                                   *)
(*   inv, ninv   : the running invocation and the number started so far,   *)
(*   depth       : the depth of the host's call stack,                     *)
(*   steps       : loop iterations run so far,                             *)
(*   tr          : the record of what has been executed (observation only).*)
(***************************************************************************)
GLOBALS == 1

EmptyDict == [k \in {} |-> NoneV]
Put(d, k, v) == [y \in DOMAIN d \cup {k} |-> IF y = k THEN v ELSE d[y]]

\* a local_env or caller_locals as a dictionary (None: no entries)
DictAt(heap, ref) == IF ref = 0 THEN EmptyDict ELSE heap[ref]

Scope(m)   == DictAt(m.heap, m.loc)
Globals(m) == m.heap[GLOBALS]

\* One entry of the record of what has been executed: the kind of step e, the
\* invocation inv it belongs to, the line id of the statement in the
\* algorithm's body, a name x, a value v, snapshots sc and g of a scope and of
\* the globals, and the exception err an invocation ended with.
EvS(e, inv, id, x, v, sc, g) ==
    [e |-> e, inv |-> inv, id |-> id, x |-> x, v |-> v, sc |-> sc, g |-> g, err |-> NoErr]
Ev(e, inv, id, x, v) == EvS(e, inv, id, x, v, EmptyDict, EmptyDict)

Log(m, ev) == [m EXCEPT !.tr = Append(@, ev)]

ROk(m, v)  == [m |-> m, st |-> "ok", val |-> v, err |-> NoErr]
RErr(m, e) == [m |-> m, st |-> "err", val |-> NoneV, err |-> e]
\* the model's budget of loop iterations is used up: the run is not followed further
RLimit(m)  == [m |-> m, st |-> "limit", val |-> NoneV, err |-> NoErr]
\* the outcome of a builtin, in machine state m
Lift(m, r) == [m |-> m, st |-> r.st, val |-> r.val, err |-> r.err]

\* a store that also reaches env.globals when the name is a global
StoreNameThrough(m, key, v) ==
    [m EXCEPT !.heap[m.loc] = Put(@, key, v),
              !.heap[GLOBALS] = IF key \in DOMAIN @ THEN Put(@, key, v) ELSE @]

\* local_env[key] = v
StoreName(m, key, v) == [m EXCEPT !.heap[m.loc] = Put(@, key, v)]

\* The host's recursion limit, and the model's budget of loop iterations.
MaxDepth == 5
MaxSteps == 8

RecursionError == Err("RecursionError", "maximum recursion depth exceeded", "", 0, 0)

\* raise ValueError(f"Could not evaluate expression '{expr}' (py: {py_expr}): {e}")
Wrap(e) ==
    [kind |-> "ValueError", what |-> "Could not evaluate expression",
     cause |-> IF e.what = "Could not evaluate expression" THEN e.cause ELSE e.what,
     name |-> e.name, a |-> e.a, b |-> e.b]

Builtins == {"Nil", "leaf", "cons", "isEmpty", "value", "tail", "node", "isLeaf",
             "root", "left", "right", "size", "merge"}

BadCall == Raise(Err("TypeError", "wrong number of arguments", "", 0, 0))

\* env.builtins[fname](*evaled_args)
CallBuiltin(fname, args) ==
    LET n == Len(args)
    IN  CASE fname = "Nil"     -> IF n = 0 THEN Ok(Nil) ELSE BadCall
          [] fname = "leaf"    -> Raise(Err("TypeError", "object is not callable", "leaf", 0, 0))
          [] fname = "cons"    -> IF n = 2 THEN cons(args[1], args[2]) ELSE BadCall
          [] fname = "isEmpty" -> IF n = 1 THEN Ok(Bool(isEmpty(args[1]))) ELSE BadCall
          [] fname = "value"   -> IF n = 1 THEN value(args[1]) ELSE BadCall
          [] fname = "tail"    -> IF n = 1 THEN tail(args[1]) ELSE BadCall
          [] fname = "node"    -> IF n = 3 THEN Ok(node(args[1], args[2], args[3])) ELSE BadCall
          [] fname = "isLeaf"  -> IF n = 1 THEN Ok(Bool(isLeaf(args[1]))) ELSE BadCall
          [] fname = "root"    -> IF n = 1 THEN root(args[1]) ELSE BadCall
          [] fname = "left"    -> IF n = 1 THEN left(args[1]) ELSE BadCall
          [] fname = "right"   -> IF n = 1 THEN right(args[1]) ELSE BadCall
          [] fname = "size"    -> IF n = 1 THEN size(args[1]) ELSE BadCall
          [] fname = "merge"   -> IF n = 2 THEN merge(args[1], args[2]) ELSE BadCall

(***************************************************************************)
(* Host arithmetic and comparison on DSL values (integers and booleans).   *)
(***************************************************************************)
PyMod(a, b) == IF b > 0 THEN a % b ELSE 0 - ((0 - a) % (0 - b))

PyBin(op, l, r) ==
    IF ~(IsNum(l) /\ IsNum(r))
    THEN Raise(Err("TypeError", "unsupported operand type(s)", op, 0, 0))
    ELSE CASE op = "+" -> Ok(IntV(l.n + r.n))
           [] op = "-" -> Ok(IntV(l.n - r.n))
           [] op = "*" -> Ok(IntV(l.n * r.n))
           [] op = "%" -> IF r.n = 0
                          THEN Raise(Err("ZeroDivisionError", "modulo by zero", "", 0, 0))
                          ELSE Ok(IntV(PyMod(l.n, r.n)))

PyEq(l, r) == IF IsNum(l) /\ IsNum(r) THEN l.n = r.n ELSE l = r

PyCompare(op, l, r) ==
    IF op = "==" THEN Ok(Bool(PyEq(l, r)))
    ELSE IF op = "!=" THEN Ok(Bool(~PyEq(l, r)))
    ELSE IF ~(IsNum(l) /\ IsNum(r))
         THEN Raise(Err("TypeError", "not supported between instances", op, 0, 0))
    ELSE CASE op = "<"  -> Ok(Bool(l.n < r.n))
           [] op = ">"  -> Ok(Bool(l.n > r.n))
           [] op = "<=" -> Ok(Bool(l.n <= r.n))
           [] op = ">=" -> Ok(Bool(l.n >= r.n))

\* int(v)
PyInt(v) ==
    IF IsNum(v) THEN Ok(IntV(v.n))
    ELSE Raise(Err("TypeError", "int() argument must be a number", "", 0, 0))

\* args_str split on the commas outside parentheses
RECURSIVE SplitArgs(_, _, _, _)
SplitArgs(toks, depth, cur, args) ==
    IF toks = <<>> THEN (IF cur # <<>> THEN Append(args, cur) ELSE args)
    ELSE LET ch == toks[1]
         IN  IF ch = "(" THEN SplitArgs(Tail(toks), depth + 1, Append(cur, ch), args)
             ELSE IF ch = ")" THEN SplitArgs(Tail(toks), depth - 1, Append(cur, ch), args)
             ELSE IF ch = "," /\ depth = 0
                  THEN SplitArgs(Tail(toks), depth, <<>>, Append(args, cur))
             ELSE SplitArgs(Tail(toks), depth, Append(cur, ch), args)

\* ns[name] of eval_expr: builtins, then globals, then local_env, then the
\* registered algorithms, each update overriding the ones before it
NsHas(m, name) ==
    name \in DOMAIN m.funcs \cup DOMAIN Scope(m) \cup DOMAIN Globals(m) \cup Builtins

NsGet(m, name) ==
    IF name \in DOMAIN m.funcs THEN LambdaV(name)
    ELSE IF name \in DOMAIN Scope(m) THEN Scope(m)[name]
    ELSE IF name \in DOMAIN Globals(m) THEN Globals(m)[name]
    ELSE IF name = "leaf" THEN leaf
    ELSE BuiltinV(name)

(***************************************************************************)
(* Statement lines.  s.lower() and re.IGNORECASE are modelled for the      *)
(* spellings kw, Kw and KW of the keywords.                                *)
(***************************************************************************)
Lower(tok) ==
    CASE tok \in {"If", "IF"}             -> "if"
      [] tok \in {"Elseif", "ELSEIF"}     -> "elseif"
      [] tok \in {"Else", "ELSE"}         -> "else"
      [] tok \in {"Endif", "ENDIF"}       -> "endif"
      [] tok \in {"While", "WHILE"}       -> "while"
      [] tok \in {"Endwhile", "ENDWHILE"} -> "endwhile"
      [] tok \in {"For", "FOR"}           -> "for"
      [] tok \in {"Endfor", "ENDFOR"}     -> "endfor"
      [] tok \in {"Let", "LET"}           -> "let"
      [] tok \in {"Return", "RETURN"}     -> "return"
      [] tok \in {"Then", "THEN"}         -> "then"
      [] tok \in {"Do", "DO"}             -> "do"
      [] tok \in {"From", "FROM"}         -> "from"
      [] tok \in {"To", "TO"}             -> "to"
      [] tok \in {"In", "IN"}             -> "in"
      [] OTHER                            -> tok

\* s.lower().startswith(kw + " "): the keyword and something after it
StartsWithKw(s, kw) == Len(s) >= 2 /\ Lower(s[1]) = kw
\* re.match(kw + r"\s*$", s)
IsKwLine(s, kw) == Len(s) = 1 /\ Lower(s[1]) = kw

\* the text matched by (.*?) before an optional closing keyword: \s*(kw)?\s*$
DropClosing(toks, kw) ==
    IF toks # <<>> /\ Lower(toks[Len(toks)]) = kw
    THEN SubSeq(toks, 1, Len(toks) - 1) ELSE toks

HasEqTok(s) == \E i \in 1..Len(s) : HasEq(s[i])
FirstEq(s)  == CHOOSE i \in 1..Len(s) : HasEq(s[i]) /\ \A j \in 1..(i - 1) : ~HasEq(s[j])

\* s.split("=", 1): the text before the first "=" character and the text after it
SplitEq(s) ==
    LET i    == FirstEq(s)
        tok  == s[i]
        pre  == SubSeq(s, 1, i - 1)
        post == SubSeq(s, i + 1, Len(s))
    IN  CASE tok = "="  -> [lhs |-> pre, rhs |-> post]
          [] tok = "==" -> [lhs |-> pre, rhs |-> <<"=">> \o post]
          [] tok = "<=" -> [lhs |-> Append(pre, "<"), rhs |-> post]
          [] tok = ">=" -> [lhs |-> Append(pre, ">"), rhs |-> post]
          [] tok = "!=" -> [lhs |-> Append(pre, "!"), rhs |-> post]

HasArrow(s)   == \E i \in 1..Len(s) : s[i] = "<-"
FirstArrow(s) == CHOOSE i \in 1..Len(s) : s[i] = "<-" /\ \A j \in 1..(i - 1) : s[j] # "<-"
\* s.split(arrow, 1)
SplitArrow(s) ==
    [lhs |-> SubSeq(s, 1, FirstArrow(s) - 1), rhs |-> SubSeq(s, FirstArrow(s) + 1, Len(s))]

\* \w+ : one word
IsWord(tok) == tok \notin Punct

\* for\s+(\w+)\s+from\s+(.*?)\s+to\s+(.*?)\s*(do)?\s*$
ToPositions(ln) == {k \in 5..(Len(ln) - 1) : Lower(ln[k]) = "to"}
IsForRange(ln) ==
    /\ Len(ln) >= 6 /\ Lower(ln[1]) = "for" /\ IsWord(ln[2]) /\ Lower(ln[3]) = "from"
    /\ ToPositions(ln) # {}
ForRangeParts(ln) ==
    LET k == CHOOSE k \in ToPositions(ln) : \A j \in ToPositions(ln) : k <= j
    IN  [var_name   |-> ln[2],
         start_expr |-> SubSeq(ln, 4, k - 1),
         end_expr   |-> DropClosing(SubSeq(ln, k + 1, Len(ln)), "do")]

\* for\s+(\w+)\s+in\s+(.*?)\s*(do)?\s*$
IsForIn(ln) ==
    Len(ln) >= 4 /\ Lower(ln[1]) = "for" /\ IsWord(ln[2]) /\ Lower(ln[3]) = "in"
ForInParts(ln) ==
    [var_name |-> ln[2], list_expr |-> DropClosing(SubSeq(ln, 4, Len(ln)), "do")]

\* the scan that pairs a terminator with its own opener
ScanMatching(lines, i, kw) ==
    LET opener   == IF kw = "endwhile" THEN "while" ELSE "for"
        Depth(k) == Cardinality({j \in (i + 1)..k : StartsWithKw(lines[j], opener)})
                    - Cardinality({j \in (i + 1)..k : IsKwLine(lines[j], kw)})
        ends     == {k \in i..(Len(lines) - 1) : IsKwLine(lines[k + 1], kw) /\ Depth(k) = 0}
    IN  IF ends = {} THEN IF i >= Len(lines) THEN i ELSE Len(lines)
        ELSE CHOOSE k \in ends : \A k2 \in ends : k <= k2

\* the index of the first line from i on that is the closing keyword, or
\* len(lines) when there is none (0-based, as in the code)
RECURSIVE ScanTo(_, _, _)
ScanTo(lines, i, kw) ==
    IF i >= Len(lines) THEN i
    ELSE IF IsKwLine(lines[i + 1], kw) THEN i
    ELSE ScanTo(lines, i + 1, kw)

\* lines[a:b]
Slice(lines, a, b) == SubSeq(lines, a + 1, b)

(***************************************************************************)
(* process_if's scan: the branches of the if at lines[start], each with    *)
(* its label, its condition text, the index of the line that opens it and  *)
(* its statements; and end_idx.                                            *)
(***************************************************************************)
Branch(label, cond, at, seq) == [label |-> label, cond |-> cond, at |-> at, seq |-> seq]

RECURSIVE CollectBranches(_, _, _)
CollectBranches(lines, i, branches) ==
    IF i >= Len(lines) THEN [branches |-> branches, end_idx |-> i]
    ELSE LET s == lines[i + 1]
             n == Len(branches)
         IN  IF StartsWithKw(s, "elseif")
             THEN LET cond_txt == DropClosing(Tail(s), "then")
                  IN  CollectBranches(lines, i + 1,
                          Append(branches, Branch(Text(cond_txt), cond_txt, i, <<>>)))
             ELSE IF IsKwLine(s, "else")
             THEN CollectBranches(lines, i + 1, Append(branches, Branch("ELSE", <<>>, i, <<>>)))
             ELSE IF IsKwLine(s, "endif")
             THEN [branches |-> branches, end_idx |-> i]
             ELSE CollectBranches(lines, i + 1,
                      [branches EXCEPT ![n].seq = Append(@, s)])

(***************************************************************************)
(* Algorithm execution: the scope of an invocation                         *)
(***************************************************************************)
\* a check that admits surplus arguments: len(args) < len(params)
TooFewArgs(args, params) == Len(args) < Len(params)

\* if len(args) != len(params)
ArityMismatch(args, params) == Len(args) # Len(params)

\* local_env = caller_locals or {} : the caller's dictionary itself when it has one
SharedLocalEnv(heap, caller_locals) ==
    IF caller_locals = 0 THEN [heap |-> Append(heap, EmptyDict), ref |-> Len(heap) + 1]
    ELSE [heap |-> heap, ref |-> caller_locals]

\* local_env = {} : a new dictionary, which is not the caller's
NewLocalEnv(heap, caller_locals) ==
    [heap |-> Append(heap, EmptyDict), ref |-> Len(heap) + 1]

\* for p, a in zip(params, args): local_env[p] = a
BindParams(local_env, params, args) ==
    LET n     == IF Len(params) < Len(args) THEN Len(params) ELSE Len(args)
        names == {params[i] : i \in 1..n}
        lastAt(p) == CHOOSE i \in 1..n : params[i] = p /\ \A j \in 1..n : params[j] = p => j <= i
    IN  [y \in DOMAIN local_env \cup names |->
            IF y \in names THEN args[lastAt(y)] ELSE local_env[y]]

\* the caller's bindings put over the parameters
CallerFirst(local_env, caller_locals) ==
    [y \in DOMAIN local_env \cup DOMAIN caller_locals |->
        IF y \in DOMAIN caller_locals THEN caller_locals[y] ELSE local_env[y]]

\* for k, v in caller_locals.items(): if k not in local_env: local_env[k] = v
InheritLocals(local_env, caller_locals) ==
    [y \in DOMAIN local_env \cup DOMAIN caller_locals |->
        IF y \in DOMAIN local_env THEN local_env[y] ELSE caller_locals[y]]

\* local_env[lhs.strip()] = <value>, with the record of it
Assign(m, id, key, v) == Log(StoreName(m, key, v), Ev("assign", m.inv, id, key, v))

\* results of the block handlers: (end_idx, ret_val, did_ret)
B(r, end_idx, did) ==
    [m |-> r.m, st |-> r.st, val |-> r.val, err |-> r.err, end |-> end_idx, did |-> did]
\* the (value, raised, budget) part of a block result
R(b) == [m |-> b.m, st |-> b.st, val |-> b.val, err |-> b.err]

Malformed(what) == Err("ValueError", what, "", 0, 0)

\* range(a, b) as a sequence of values
Range(a, b) == IF b > a THEN [i \in 1..(b - a) |-> IntV(a + i - 1)] ELSE <<>>

(***************************************************************************)
(* The evaluator and the interpreter call each other: an expression may    *)
(* call an algorithm, whose body evaluates expressions.  Every operator    *)
(* takes the machine state and yields the machine state after it.  A call  *)
(* from one of them to another is written Call("name", <<arguments>>).     *)
(***************************************************************************)


\* NameError("Unknown function") : the message without the name
UnknownFunctionUnnamed(fname) == Err("NameError", "Unknown function", "", 0, 0)

\* NameError(f"Unknown function: {fname}")
UnknownFunction(fname) == Err("NameError", "Unknown function", fname, 0, 0)

\* [eval_expr(arg, local_env, env) for arg in args]
EvalArgs(args, acc, m) ==
    IF args = <<>> THEN [m |-> m, st |-> "ok", vals |-> acc, err |-> NoErr]
    ELSE LET r == Call("eval_expr", <<args[1], m>>)
         IN  IF r.st # "ok" THEN [m |-> r.m, st |-> r.st, vals |-> acc, err |-> r.err]
             ELSE Call("EvalArgs", <<Tail(args), Append(acc, r.val), r.m>>)

\* ([A-Za-z_]\w*)\((.*)\)$ ; a result of None is "no call made, or no value"
eval_call(token, m) ==
    IF ~(Len(token) >= 3 /\ IsIdent(token[1]) /\ token[2] = "("
         /\ token[Len(token)] = ")")
    THEN ROk(m, NoneV)
    ELSE LET fname    == token[1]
             args_str == SubSeq(token, 3, Len(token) - 1)
             args     == SplitArgs(args_str, 0, <<>>, <<>>)
             ev       == IF args_str # <<>> THEN Call("EvalArgs", <<args, <<>>, m>>)
                         ELSE [m |-> m, st |-> "ok", vals |-> <<>>, err |-> NoErr]
         IN  IF ev.st # "ok"
             THEN [m |-> ev.m, st |-> ev.st, val |-> NoneV, err |-> ev.err]
             ELSE IF fname \in Builtins
                  THEN Lift(ev.m, CallBuiltin(fname, ev.vals))
             ELSE IF fname \in DOMAIN ev.m.funcs
                  THEN Call("execute_algorithm", <<fname, ev.vals, ev.m>>)
             ELSE RErr(ev.m, UnknownFunction(fname))

eval_expr(expr, m) ==
    LET call_val == Call("eval_call", <<expr, m>>)
    IN  IF call_val.st # "ok" THEN call_val
        ELSE IF call_val.val # NoneV THEN call_val
        ELSE LET m1  == call_val.m
                 lit == parse_literal(expr)
             IN  IF lit # NoneV THEN ROk(m1, lit)
                 ELSE IF Text(expr) \in DOMAIN Scope(m1) THEN ROk(m1, Scope(m1)[Text(expr)])
                 ELSE IF Text(expr) \in DOMAIN Globals(m1)
                      THEN ROk(m1, Globals(m1)[Text(expr)])
                 ELSE LET py_expr == normalize_ops(expr)
                          tree    == Call("PyParse", <<py_expr>>)
                      IN  IF ~tree.ok
                          THEN RErr(m1, Wrap(Err("SyntaxError", "invalid syntax", "", 0, 0)))
                          ELSE LET r == Call("PyEval", <<tree.ast, m1>>)
                               IN  IF r.st = "err" THEN RErr(r.m, Wrap(r.err)) ELSE r

PyEvalArgs(asts, acc, m) ==
    IF asts = <<>> THEN [m |-> m, st |-> "ok", vals |-> acc, err |-> NoErr]
    ELSE LET r == Call("PyEval", <<asts[1], m>>)
         IN  IF r.st # "ok" THEN [m |-> r.m, st |-> r.st, vals |-> acc, err |-> r.err]
             ELSE Call("PyEvalArgs", <<Tail(asts), Append(acc, r.val), r.m>>)

\* a0 op1 a1 op2 a2 ... : left to right, stopping at the first false comparison
PyEvalCmp(lhs, ops, rands, i, m) ==
    LET r == Call("PyEval", <<rands[i], m>>)
    IN  IF r.st # "ok" THEN r
        ELSE LET c == PyCompare(ops[i], lhs, r.val)
             IN  IF c.st # "ok" THEN Lift(r.m, c)
                 ELSE IF i = Len(ops) \/ ~Truthy(c.val) THEN ROk(r.m, c.val)
                 ELSE Call("PyEvalCmp", <<r.val, ops, rands, i + 1, r.m>>)

\* calling a value of the namespace: a registered algorithm is
\* lambda *a: execute_algorithm(fn, list(a), env, local_env)
PyApply(f, args, m) ==
    IF f.t = "lambda" THEN Call("execute_algorithm", <<f.x, args, m>>)
    ELSE IF f.t = "builtin" THEN Lift(m, CallBuiltin(f.x, args))
    ELSE RErr(m, Err("TypeError", "object is not callable", "", 0, 0))

\* eval(py_expr, {"__builtins__": {}}, ns)
PyEval(ast, m) ==
    CASE ast.k = "num"   -> ROk(m, IntV(ast.n))
      [] ast.k = "const" -> ROk(m, IF ast.x = "True" THEN Bool(TRUE)
                                   ELSE IF ast.x = "False" THEN Bool(FALSE) ELSE NoneV)
      [] ast.k = "name"  ->
            IF NsHas(m, ast.x) THEN ROk(m, NsGet(m, ast.x))
            ELSE RErr(m, Err("NameError", "name is not defined", ast.x, 0, 0))
      [] ast.k = "unary" ->
            LET a == Call("PyEval", <<ast.a, m>>)
            IN  IF a.st # "ok" THEN a
                ELSE IF ~IsNum(a.val)
                     THEN RErr(a.m, Err("TypeError", "bad operand type for unary", ast.op, 0, 0))
                ELSE ROk(a.m, IntV(IF ast.op = "-" THEN 0 - a.val.n ELSE a.val.n))
      [] ast.k = "bin"   ->
            LET l == Call("PyEval", <<ast.l, m>>)
            IN  IF l.st # "ok" THEN l
                ELSE LET r == Call("PyEval", <<ast.r, l.m>>)
                     IN  IF r.st # "ok" THEN r ELSE Lift(r.m, PyBin(ast.op, l.val, r.val))
      [] ast.k = "and"   ->
            LET l == Call("PyEval", <<ast.l, m>>)
            IN  IF l.st # "ok" \/ ~Truthy(l.val) THEN l ELSE Call("PyEval", <<ast.r, l.m>>)
      [] ast.k = "or"    ->
            LET l == Call("PyEval", <<ast.l, m>>)
            IN  IF l.st # "ok" \/ Truthy(l.val) THEN l ELSE Call("PyEval", <<ast.r, l.m>>)
      [] ast.k = "not"   ->
            LET a == Call("PyEval", <<ast.a, m>>)
            IN  IF a.st # "ok" THEN a ELSE ROk(a.m, Bool(~Truthy(a.val)))
      [] ast.k = "cmp"   ->
            LET l == Call("PyEval", <<ast.first, m>>)
            IN  IF l.st # "ok" THEN l ELSE Call("PyEvalCmp", <<l.val, ast.ops, ast.rands, 1, l.m>>)
      [] ast.k = "call"  ->
            LET f == Call("PyEval", <<ast.f, m>>)
            IN  IF f.st # "ok" THEN f
                ELSE LET ev == Call("PyEvalArgs", <<ast.args, <<>>, f.m>>)
                     IN  IF ev.st # "ok"
                         THEN [m |-> ev.m, st |-> ev.st, val |-> NoneV, err |-> ev.err]
                         ELSE Call("PyApply", <<f.val, ev.vals, ev.m>>)

execute_algorithm(name, args, m) ==
    LET inv == m.ninv + 1
        m1  == Log([m EXCEPT !.ninv = inv],
                   EvS("call", inv, m.depth, name, ListV(args), DictAt(m.heap, m.loc),
                       Globals(m)))
        \* back in the caller: the callee's dictionary is garbage
        Leave(r) ==
            LET back == [r.m EXCEPT !.heap = SubSeq(@, 1, Len(m.heap)),
                                    !.loc = m.loc, !.inv = m.inv, !.depth = m.depth]
            IN  [m   |-> Log(back, [EvS("exit", inv, 0, r.st, r.val,
                                        DictAt(back.heap, m.loc), Globals(back))
                                    EXCEPT !.err = r.err]),
                 st  |-> r.st, val |-> r.val, err |-> r.err]
    IN  IF m.depth >= MaxDepth THEN Leave(RErr(m1, RecursionError))
        ELSE IF name \notin DOMAIN m.funcs
             THEN Leave(RErr(m1, Err("KeyError", "", name, 0, 0)))
        ELSE LET params == m.funcs[name].params
                 body   == m.funcs[name].body
                 fresh  == NewLocalEnv(m1.heap, m.loc)
             IN  IF ArityMismatch(args, params)
                 THEN Leave(RErr(m1, Err("ValueError", "Argument mismatch", name,
                                         Len(params), Len(args))))
                 ELSE LET h1 == [fresh.heap EXCEPT ![fresh.ref] = BindParams(@, params, args)]
                          h2 == IF m.loc # 0 /\ DOMAIN h1[m.loc] # {}
                                THEN [h1 EXCEPT ![fresh.ref] = InheritLocals(@, h1[m.loc])]
                                ELSE h1
                          m2 == [m1 EXCEPT !.heap = h2, !.loc = fresh.ref, !.inv = inv,
                                           !.depth = m.depth + 1]
                      IN  Leave(Call("run_lines", <<body, 0, 0, m2>>))

\* One pass of run_lines' loop from idx on.  `base` is the number of lines of
\* the algorithm's body that precede lines[0] (observation only).
run_lines(lines, base, idx, m) ==
    IF idx >= Len(lines) THEN ROk(m, NoneV)
    ELSE LET s  == lines[idx + 1]
             m0 == Log(m, EvS("stmt", m.inv, base + idx + 1, "", NoneV, Scope(m), EmptyDict))
             Block(b) == IF b.st # "ok" THEN R(b)
                         ELSE IF b.did THEN ROk(b.m, b.val)
                         ELSE Call("run_lines", <<lines, base, b.end + 1, b.m>>)
         IN  IF StartsWithKw(s, "if") THEN Block(Call("process_if", <<lines, base, idx, m0>>))
             ELSE IF StartsWithKw(s, "while") THEN Block(Call("process_while", <<lines, base, idx, m0>>))
             ELSE IF StartsWithKw(s, "for") THEN Block(Call("process_for", <<lines, base, idx, m0>>))
             ELSE LET r == Call("run_statement", <<s, base + idx + 1, m0>>)
                  IN  IF r.st # "ok" THEN R(r)
                      ELSE IF r.did THEN ROk(r.m, r.val)
                      ELSE Call("run_lines", <<lines, base, idx + 1, r.m>>)

\* try: _ = eval_expr(s, local_env, env)  except: pass
Suppressed(r, inv, id) ==
    B(ROk(Log(r.m, Ev("skip", inv, id, r.err.kind, NoneV)), NoneV), 0, FALSE)

\* let / arrow / return / assignment / bare expression, in run_lines
run_statement(s, id, m) ==
    LET Store(sp) == LET r == Call("eval_expr", <<sp.rhs, m>>)
                     IN  IF r.st # "ok" THEN B(r, 0, FALSE)
                         ELSE B(ROk(Assign(r.m, id, Text(sp.lhs), r.val), NoneV), 0, FALSE)
    IN  IF StartsWithKw(s, "let")
        THEN IF ~HasEqTok(Tail(s)) THEN B(RErr(m, Malformed("Malformed let")), 0, FALSE)
             ELSE Store(SplitEq(Tail(s)))
        ELSE IF HasArrow(s) THEN Store(SplitArrow(s))
        ELSE IF s # <<>> /\ Lower(s[1]) = "return"
        THEN LET ret_expr == Tail(s)
                 r == IF ret_expr # <<>> THEN Call("eval_expr", <<ret_expr, m>>) ELSE ROk(m, NoneV)
             IN  IF r.st # "ok" THEN B(r, 0, FALSE)
                 ELSE B(ROk(Log(r.m, Ev("ret", m.inv, id, "", r.val)), r.val), 0, TRUE)
        ELSE IF HasEqTok(s) /\ s[1] # "=="
        THEN Store(SplitEq(s))
        ELSE LET r == Call("eval_expr", <<s, m>>)
             IN  IF r.st = "err"
                 THEN Suppressed(r, m.inv, id)
                 ELSE B([r EXCEPT !.val = NoneV], 0, FALSE)

\* the same statements in exec_branch
branch_statement(s, id, m) ==
    LET Store(sp) == LET r == Call("eval_expr", <<sp.rhs, m>>)
                     IN  IF r.st # "ok" THEN B(r, 0, FALSE)
                         ELSE B(ROk(Assign(r.m, id, Text(sp.lhs), r.val), NoneV), 0, FALSE)
    IN  IF StartsWithKw(s, "let")
        THEN IF ~HasEqTok(Tail(s)) THEN B(RErr(m, Malformed("Malformed let")), 0, FALSE)
             ELSE Store(SplitEq(Tail(s)))
        ELSE IF HasArrow(s) THEN Store(SplitArrow(s))
        ELSE IF s # <<>> /\ Lower(s[1]) = "return"
        THEN LET ret_expr == Tail(s)
                 r == IF ret_expr # <<>> THEN Call("eval_expr", <<ret_expr, m>>) ELSE ROk(m, NoneV)
             IN  IF r.st # "ok" THEN B(r, 0, FALSE)
                 ELSE B(ROk(Log(r.m, Ev("ret", m.inv, id, "", r.val)), r.val), 0, TRUE)
        ELSE IF HasEqTok(s) /\ s[1] # "=="
        THEN Store(SplitEq(s))
        ELSE LET r == Call("eval_expr", <<s, m>>)
             IN  IF r.st = "err"
                 THEN Suppressed(r, m.inv, id)
                 ELSE B([r EXCEPT !.val = NoneV], 0, FALSE)

\* exec_branch(seq) from j on; br is the branch whose statements seq holds.
\* A nested if is handed to process_if with its index in seq.
exec_branch(lines, base, br, j, m) ==
    IF j >= Len(br.seq) THEN B(ROk(m, NoneV), 0, FALSE)
    ELSE LET s  == br.seq[j + 1]
             id == base + br.at + j + 2
             m0 == Log(m, EvS("stmt", m.inv, id, "", NoneV, Scope(m), EmptyDict))
         IN  IF StartsWithKw(s, "if")
             THEN LET b == Call("process_if", <<lines, base, j, m0>>)
                  IN  IF b.st # "ok" \/ b.did THEN b
                      ELSE Call("exec_branch", <<lines, base, br, b.end + 1, b.m>>)
             ELSE LET r == Call("branch_statement", <<s, id, m0>>)
                  IN  IF r.st # "ok" \/ r.did THEN r
                      ELSE Call("exec_branch", <<lines, base, br, j + 1, r.m>>)

\* for k in range(1, len(branches)): ...
TryBranches(lines, base, start, branches, k, end_idx, m) ==
    IF k > Len(branches) THEN B(ROk(m, NoneV), end_idx, FALSE)
    ELSE LET br     == branches[k]
             Run(mm) == LET b == Call("exec_branch", <<lines, base, br, 0,
                                     Log(mm, Ev("branch", mm.inv, base + start + 1, "",
                                                IntV(k - 1)))>>)
                        IN  B(b, end_idx, b.did)
         IN  IF br.label = "ELSE" THEN Run(m)
             ELSE LET cond2 == Call("eval_expr", <<br.cond, m>>)
                      m1    == Log(cond2.m, Ev("cond", m.inv, base + br.at + 1, "",
                                               Bool(Truthy(cond2.val))))
                  IN  IF cond2.st # "ok" THEN B(cond2, end_idx, FALSE)
                      ELSE IF Truthy(cond2.val) THEN Run(m1)
                      ELSE Call("TryBranches", <<lines, base, start, branches, k + 1, end_idx, m1>>)

process_if(lines, base, start, m) ==
    LET ln == lines[start + 1]
    IN  IF ~StartsWithKw(ln, "if") THEN B(RErr(m, Malformed("Malformed if")), 0, FALSE)
        ELSE IF m.depth >= MaxDepth THEN B(RErr(m, RecursionError), 0, FALSE)
        ELSE LET md       == [m EXCEPT !.depth = @ + 1]
                 cond_val == Call("eval_expr", <<DropClosing(Tail(ln), "then"), md>>)
                 m1       == Log(cond_val.m, Ev("cond", m.inv, base + start + 1, "",
                                                Bool(Truthy(cond_val.val))))
                 scan     == CollectBranches(lines, start + 1,
                                             <<Branch("IF_TRUE", <<>>, start, <<>>)>>)
                 Up(b)    == [b EXCEPT !.m.depth = m.depth]
             IN  IF cond_val.st # "ok" THEN Up(B(cond_val, 0, FALSE))
                 ELSE IF Truthy(cond_val.val)
                      THEN LET b == Call("exec_branch", <<lines, base, scan.branches[1], 0,
                                        Log(m1, Ev("branch", m.inv, base + start + 1, "",
                                                   IntV(0)))>>)
                           IN  Up(B(b, scan.end_idx, b.did))
                 ELSE Up(Call("TryBranches", <<lines, base, start, scan.branches, 2, scan.end_idx, m1>>))

\* while eval_expr(cond_expr, local_env, env): ...
WhileLoop(cond_expr, body, base, id, end_idx, m) ==
    IF m.steps >= MaxSteps THEN B(RLimit(m), end_idx, FALSE)
    ELSE LET c  == Call("eval_expr", <<cond_expr, m>>)
             m1 == Log(c.m, Ev("cond", m.inv, id, "", Bool(Truthy(c.val))))
         IN  IF c.st # "ok" THEN B(c, end_idx, FALSE)
             ELSE IF ~Truthy(c.val) THEN B(ROk(m1, NoneV), end_idx, FALSE)
             ELSE LET ret == Call("run_lines", <<body, base, 0, [m1 EXCEPT !.steps = @ + 1]>>)
                  IN  IF ret.st # "ok" THEN B(ret, end_idx, FALSE)
                      ELSE IF ret.val # NoneV THEN B(ret, end_idx, TRUE)
                      ELSE Call("WhileLoop", <<cond_expr, body, base, id, end_idx, ret.m>>)

process_while(lines, base, start, m) ==
    LET ln        == lines[start + 1]
        cond_expr == DropClosing(Tail(ln), "do")
        end_idx   == ScanTo(lines, start + 1, "endwhile")
        body      == Slice(lines, start + 1, end_idx)
    IN  Call("WhileLoop", <<cond_expr, body, base + start + 1, base + start + 1, end_idx, m>>)

\* for item in items: local_env[var_name] = item; ret = run_lines(body, local_env); ...
ForLoop(var_name, items, body, base, id, end_idx, m) ==
    IF items = <<>> THEN B(ROk(m, NoneV), end_idx, FALSE)
    ELSE LET m1  == Log(StoreName(m, var_name, items[1]),
                        Ev("iter", m.inv, id, var_name, items[1]))
             ret == Call("run_lines", <<body, base, 0, m1>>)
         IN  IF ret.st # "ok" THEN B(ret, end_idx, FALSE)
             ELSE IF ret.val # NoneV THEN B(ret, end_idx, TRUE)
             ELSE Call("ForLoop", <<var_name, Tail(items), body, base, id, end_idx, ret.m>>)

process_for(lines, base, start, m) ==
    LET ln      == lines[start + 1]
        id      == base + start + 1
        end_idx == ScanTo(lines, start + 1, "endfor")
        body    == Slice(lines, start + 1, end_idx)
    IN  IF IsForRange(ln)
        THEN LET p         == ForRangeParts(ln)
                 start_val == Call("eval_expr", <<p.start_expr, m>>)
             IN  IF start_val.st # "ok" THEN B(start_val, 0, FALSE)
                 ELSE LET end_val == Call("eval_expr", <<p.end_expr, start_val.m>>)
                      IN  IF end_val.st # "ok" THEN B(end_val, 0, FALSE)
                          ELSE LET a == PyInt(start_val.val)
                                   b == PyInt(end_val.val)
                               IN  IF a.st # "ok" THEN B(Lift(end_val.m, a), 0, FALSE)
                                   ELSE IF b.st # "ok" THEN B(Lift(end_val.m, b), 0, FALSE)
                                   ELSE Call("ForLoop", <<p.var_name, Range(a.val.n, b.val.n + 1),
                                                body, id, id, end_idx,
                                                Log(end_val.m,
                                                    Ev("range", m.inv, id, p.var_name,
                                                       ListV(<<a.val, b.val>>)))>>)
        ELSE IF IsForIn(ln)
        THEN LET p        == ForInParts(ln)
                 list_val == Call("eval_expr", <<p.list_expr, m>>)
                 items    == IF IsList(list_val.val) THEN list_val.val.s
                             ELSE IF list_val.val = Nil THEN <<>>
                             ELSE <<list_val.val>>
             IN  IF list_val.st # "ok" THEN B(list_val, 0, FALSE)
                 ELSE Call("ForLoop", <<p.var_name, items, body, id, id, end_idx,
                              Log(list_val.m, Ev("coll", m.inv, id, p.var_name, list_val.val))>>)
        ELSE B(RErr(m, Malformed("Malformed for loop")), 0, FALSE)

(***************************************************************************)
(* Algorithm compilation                                                   *)
(***************************************************************************)
\* params.split(","), each part stripped
RECURSIVE SplitParams(_, _, _)
SplitParams(toks, cur, acc) ==
    IF toks = <<>> THEN Append(acc, Text(cur))
    ELSE IF toks[1] = "," THEN SplitParams(Tail(toks), <<>>, Append(acc, Text(cur)))
    ELSE SplitParams(Tail(toks), Append(cur, toks[1]), acc)

\* \s*Algorithm\s*:?\s*([A-Za-z_]\w*)\s*\((.*?)\)\s*$
parse_header(line) ==
    LET rest == IF Len(line) >= 2 /\ line[2] = ":" THEN Tail(Tail(line)) ELSE Tail(line)
    IN  IF /\ line # <<>> /\ line[1] = "Algorithm"
           /\ Len(rest) >= 3 /\ IsIdent(rest[1]) /\ rest[2] = "(" /\ rest[Len(rest)] = ")"
        THEN LET params == SubSeq(rest, 3, Len(rest) - 1)
             IN  [ok |-> TRUE, name |-> rest[1],
                  params |-> IF params # <<>> THEN SplitParams(params, <<>>, <<>>) ELSE <<>>]
        ELSE [ok |-> FALSE, name |-> "", params |-> <<>>]

\* re.match(r"\s*Algorithm\b", line)
IsHeaderLine(line) == line # <<>> /\ line[1] = "Algorithm"

\* blocks: a block is closed before every header line that has lines before it,
\* and at the end of the text
SplitBlocks(lines) ==
    LET n        == Len(lines)
        starts   == {1} \cup {i \in 2..n : IsHeaderLine(lines[i])}
        EndOf(i) == IF \E j \in starts : j > i
                    THEN (CHOOSE j \in starts : j > i /\ \A k \in starts : k > i => j <= k) - 1
                    ELSE n
        Nth(k)   == CHOOSE i \in starts : Cardinality({j \in starts : j <= i}) = k
    IN  IF n = 0 THEN <<>>
        ELSE [k \in 1..Cardinality(starts) |-> SubSeq(lines, Nth(k), EndOf(Nth(k)))]

\* re.sub(r"^(Step\s*\d+:|\d+\s*:)\s*", "", stripped, flags=re.IGNORECASE)
StripLabel(ln) ==
    IF Len(ln) >= 3 /\ ln[1] \in {"Step", "step", "STEP"} /\ ln[2] \in NumToks /\ ln[3] = ":"
    THEN SubSeq(ln, 4, Len(ln))
    ELSE IF Len(ln) >= 2 /\ ln[1] \in NumToks /\ ln[2] = ":" THEN SubSeq(ln, 3, Len(ln))
    ELSE ln

\* re.match(r"^(requires|returns)\b", stripped, flags=re.IGNORECASE)
IsSpecComment(ln) ==
    ln # <<>> /\ ln[1] \in {"requires", "Requires", "REQUIRES", "returns", "Returns", "RETURNS"}

BodyOf(lines) ==
    SelectSeq([i \in 1..Len(lines) |-> StripLabel(lines[i])], LAMBDA ln : ~IsSpecComment(ln))

\* a name once registered keeps its definition
KeepFirst(env_funcs, name, params, body_lines) ==
    IF name \in DOMAIN env_funcs THEN env_funcs
    ELSE Put(env_funcs, name, [params |-> params, body |-> body_lines])

\* env.funcs[name] = (params, body_lines)
register_algorithm(env_funcs, name, params, body_lines) ==
    Put(env_funcs, name, [params |-> params, body |-> body_lines])

RECURSIVE RegisterBlocks(_, _)
RegisterBlocks(blocks, env_funcs) ==
    IF blocks = <<>> THEN [ok |-> TRUE, funcs |-> env_funcs]
    ELSE LET lines == SelectSeq(blocks[1], LAMBDA ln : ln # <<>>)
             head  == parse_header(lines[1])
         IN  IF lines = <<>> THEN RegisterBlocks(Tail(blocks), env_funcs)
             ELSE IF ~head.ok THEN [ok |-> FALSE, funcs |-> env_funcs]
             ELSE RegisterBlocks(Tail(blocks),
                      register_algorithm(env_funcs, head.name, head.params, BodyOf(Tail(lines))))

\* the registry of the compiled text, or a failure (ValueError: Invalid algorithm header)
compile_unnc(pseudocode) == RegisterBlocks(SplitBlocks(pseudocode), EmptyDict)

(***************************************************************************)
(* The pseudocode the model compiles (algorithm.txt), line by line.        *)
(***************************************************************************)
algorithm_txt ==
    <<
    <<"Algorithm", "Sign", "(", "x", ")">>,
    <<"Requires", "an", "integer", "x">>,
    <<"Step", "1", ":", "if", "x", ">", "0", "then">>,
    <<"return", "1">>,
    <<"elseif", "x", "<", "0", "then">>,
    <<"return", "-", "1">>,
    <<"else">>,
    <<"return", "0">>,
    <<"endif">>,
    <<>>,
    <<"Algorithm", "Sum", "(", "n", ")">>,
    <<"let", "s", "=", "0">>,
    <<"for", "i", "from", "1", "to", "n", "do">>,
    <<"let", "s", "=", "s", "+", "i">>,
    <<"let", "i", "=", "7">>,
    <<"let", "n", "=", "0">>,
    <<"endfor">>,
    <<"return", "s">>,
    <<>>,
    <<"Algorithm", "Count", "(", "n", ")">>,
    <<"let", "i", "=", "0">>,
    <<"while", "i", "<", "n", "do">>,
    <<"let", "i", "=", "i", "+", "1">>,
    <<"endwhile">>,
    <<"return", "i">>,
    <<>>,
    <<"Algorithm", "Outer", "(", "a", ")">>,
    <<"let", "t", "=", "1">>,
    <<"let", "r", "=", "Inner", "(", "a", ")">>,
    <<"return", "t", "+", "r", "+", "a">>,
    <<>>,
    <<"Algorithm", "Inner", "(", "b", ")">>,
    <<"let", "t", "=", "10">>,
    <<"a", "<-", "b", "+", "5">>,
    <<"g", "=", "9">>,
    <<"return", "t", "+", "a">>,
    <<>>,
    <<"Algorithm", "Find", "(", "n", ")">>,
    <<"for", "i", "from", "1", "to", "3", "do">>,
    <<"if", "i", "==", "n", "then">>,
    <<"return", "i">>,
    <<"endif">>,
    <<"endfor">>,
    <<"return", "0">>,
    <<>>,
    <<"Algorithm", "Bare", "(", "n", ")">>,
    <<"let", "c", "=", "0">>,
    <<"while", "c", "<", "n", "do">>,
    <<"let", "c", "=", "c", "+", "1">>,
    <<"return">>,
    <<"endwhile">>,
    <<"return", "c", "+", "5">>,
    <<>>,
    <<"Algorithm", "Each", "(", "L", ")">>,
    <<"let", "s", "=", "0">>,
    <<"for", "v", "in", "L", "do">>,
    <<"let", "s", "=", "s", "+", "v">>,
    <<"endfor">>,
    <<"return", "s">>,
    <<>>,
    <<"Algorithm", "Probe", "(", "x", ")">>,
    <<"let", "y", "=", "Nope", "(", "Sign", "(", "x", ")", ")">>,
    <<"return", "y">>,
    <<>>,
    <<"Algorithm", "Six", "(", ")">>,
    <<"let", "s", "=", "0">>,
    <<"for", "i", "from", "1", "to", "3", "do">>,
    <<"let", "s", "=", "s", "+", "i">>,
    <<"endfor">>,
    <<"return", "s">>,
    <<>>,
    <<"Algorithm", "Guard", "(", "n", ")">>,
    <<"let", "c", "=", "0">>,
    <<"if", "n", ">=", "0", "then">>,
    <<"while", "c", "<", "n", "do">>,
    <<"let", "c", "=", "c", "+", "1">>,
    <<"endwhile">>,
    <<"endif">>,
    <<"return", "c">>,
    <<>>,
    <<"Algorithm", "Tot", "(", "n", ")">>,
    <<"let", "s", "=", "0">>,
    <<"if", "n", ">=", "0", "then">>,
    <<"for", "i", "from", "1", "to", "n", "do">>,
    <<"let", "s", "=", "s", "+", "1">>,
    <<"endfor">>,
    <<"endif">>,
    <<"return", "s">>,
    <<>>,
    <<"Algorithm", "All", "(", "L", ")">>,
    <<"let", "s", "=", "0">>,
    <<"if", "1", ">", "0", "then">>,
    <<"for", "v", "in", "L", "do">>,
    <<"let", "s", "=", "s", "+", "1">>,
    <<"endfor">>,
    <<"endif">>,
    <<"return", "s">>,
    <<>>,
    <<"Algorithm", "Nest", "(", "a", ",", "b", ")">>,
    <<"if", "a", ">", "0", "then">>,
    <<"let", "y", "=", "0">>,
    <<"if", "b", ">", "0", "then">>,
    <<"return", "10">>,
    <<"endif">>,
    <<"endif">>,
    <<"return", "2">>,
    <<>>,
    <<"Algorithm", "Stop", "(", "n", ")">>,
    <<"let", "c", "=", "0">>,
    <<"for", "i", "from", "1", "to", "n", "do">>,
    <<"let", "c", "=", "c", "+", "1">>,
    <<"return">>,
    <<"endfor">>,
    <<"return", "c", "+", "5">>,
    <<>>,
    <<"Algorithm", "Safe", "(", "a", ")">>,
    <<"let", "t", "=", "1">>,
    <<"Crash", "(", "a", ")">>,
    <<"return", "t", "+", "a">>,
    <<>>,
    <<"Algorithm", "Crash", "(", "b", ")">>,
    <<"a", "<-", "b", "+", "5">>,
    <<"let", "t", "=", "10">>,
    <<"for", "a", "from", "1", "to", "2", "do">>,
    <<"t", "=", "t", "+", "a">>,
    <<"endfor">>,
    <<"let", "z", "=", "value", "(", "Nil", ")">>,
    <<"return", "z">>,
    <<>>,
    <<"Algorithm", "Bad", "(", "a", ")">>,
    <<"nothing", "+", "1">>,
    <<"return", "value", "(", "Nil", ")">>,
    <<"let", "a", "=", "0">>,
    <<>>,
    <<"Algorithm", "Look", "(", "x", ")">>,
    <<"let", "r", "=", "g">>,
    <<"let", "g", "=", "1">>,
    <<"let", "s", "=", "g">>,
    <<"return", "r", "+", "s", "+", "Sign", "(", "0", "-", "x", ")">>,
    <<>>,
    <<"Algorithm", "Dup", "(", "a", ")">>,
    <<"return", "1">>,
    <<>>,
    <<"Algorithm", "Cmp", "(", "x", ")">>,
    <<"x", "==", "1">>,
    <<"return", "x">>,
    <<>>,
    <<"Algorithm", "WW", "(", "n", ")">>,
    <<"let", "i", "=", "0">>,
    <<"let", "k", "=", "0">>,
    <<"while", "i", "<", "n", "do">>,
    <<"let", "i", "=", "i", "+", "1">>,
    <<"let", "j", "=", "0">>,
    <<"while", "j", "<", "1", "do">>,
    <<"let", "j", "=", "j", "+", "1">>,
    <<"endwhile">>,
    <<"let", "k", "=", "k", "+", "1">>,
    <<"endwhile">>,
    <<"return", "k">>,
    <<>>,
    <<"Algorithm", "FF", "(", "n", ")">>,
    <<"let", "k", "=", "0">>,
    <<"for", "i", "from", "1", "to", "n", "do">>,
    <<"for", "j", "from", "1", "to", "1", "do">>,
    <<"let", "k", "=", "k", "+", "1">>,
    <<"endfor">>,
    <<"let", "k", "=", "k", "+", "10">>,
    <<"endfor">>,
    <<"return", "k">>,
    <<>>,
    <<"Algorithm", "Fall", "(", "a", ")">>,
    <<"let", "t", "=", "a">>,
    <<>>,
    <<"Algorithm", "Quit", "(", "a", ")">>,
    <<"return">>,
    <<>>,
    <<"Algorithm", "Dup", "(", "a", ",", "b", ")">>,
    <<"return", "a", "+", "b">>,
    <<>>,
    <<"Algorithm", "Eq", "(", "x", ")">>,
    <<"nothing", "==", "1">>,
    <<"return", "x">>,
    <<>>,
    <<"Algorithm", "Pick", "(", "a", ")">>,
    <<"let", "t", "=", "0">>,
    <<"if", "a", ">", "0", "then">>,
    <<"let", "t", "=", "a", "+", "1">>,
    <<"nothing", "+", "1">>,
    <<"else">>,
    <<"t", "=", "5">>,
    <<"endif">>,
    <<"return", "t">> >>

(***************************************************************************)
(* Value interchange with the case files                                   *)
(***************************************************************************)
\* a JSON string, kept with its tokens
JStr(toks) == Val("str", 0, Text(toks), [i \in 1..Len(toks) |-> StrV(toks[i])])
Toks(v)    == [i \in 1..Len(v.s) |-> v.s[i].x]

RECURSIVE py_to_dsl(_)
py_to_dsl(x) ==
    IF x = NoneV THEN Nil
    ELSE IF x.t = "pylist" THEN ListV([i \in 1..Len(x.s) |-> py_to_dsl(x.s[i])])
    ELSE x

RECURSIVE dsl_to_pyvalue(_)
dsl_to_pyvalue(x) ==
    IF x = Nil THEN NoneV
    ELSE IF x = leaf THEN Val("dict", 0, "leaf", <<>>)
    ELSE IF x.t = "list"
         THEN PyList(SelectSeq([i \in 1..Len(x.s) |-> dsl_to_pyvalue(x.s[i])],
                               LAMBDA converted : converted # NoneV))
    ELSE IF x.t = "tree"
         THEN Val("dict", 0, "node", [i \in 1..3 |-> dsl_to_pyvalue(x.s[i])])
    ELSE x

(***************************************************************************)
(* The batch of cases.  A case is a dictionary of the input file: an       *)
(* algorithm invocation {algo, args}, a variable assignment                *)
(* {type: var_assign, var, value} or an expression {type: dsl_expr, expr}. *)
(***************************************************************************)
\* store is the "store" key of an algorithm invocation: the name under which
\* the main script keeps the result ("" when the case has none)
StoreCase(algo, args, store) ==
    [type |-> "algo", algo |-> algo, args |-> args, var |-> "", expr |-> <<>>, store |-> store]
AlgoCase(algo, args) == StoreCase(algo, args, "")
VarCase(var, value_) ==
    [type |-> "var_assign", algo |-> "", args |-> <<>>, var |-> var, expr |-> value_, store |-> ""]
ExprCase(expr) ==
    [type |-> "dsl_expr", algo |-> "", args |-> <<>>, var |-> "", expr |-> expr, store |-> ""]

Cases ==
    { AlgoCase("Sign", <<IntV(5)>>), AlgoCase("Sign", <<IntV(-3)>>), AlgoCase("Sign", <<IntV(0)>>),
      AlgoCase("Sign", <<IntV(1), IntV(2)>>), AlgoCase("Sign", <<>>),
      AlgoCase("Nope", <<IntV(1)>>),
      AlgoCase("Sum", <<IntV(3)>>), AlgoCase("Sum", <<IntV(0)>>),
      AlgoCase("Count", <<IntV(0)>>), AlgoCase("Count", <<IntV(2)>>),
      AlgoCase("Outer", <<IntV(2)>>), AlgoCase("Outer", <<JStr(<<"g">>)>>),
      AlgoCase("Find", <<IntV(2)>>), AlgoCase("Find", <<IntV(5)>>),
      AlgoCase("Bare", <<IntV(2)>>), AlgoCase("Bare", <<IntV(0)>>),
      AlgoCase("Each", <<PyList(<<IntV(1), IntV(2)>>)>>), AlgoCase("Each", <<NoneV>>),
      AlgoCase("Each", <<PyList(<<>>)>>), AlgoCase("Each", <<IntV(5)>>),
      AlgoCase("Probe", <<IntV(1)>>),
      AlgoCase("Six", <<>>),
      AlgoCase("Guard", <<IntV(0)>>), AlgoCase("Guard", <<IntV(2)>>),
      AlgoCase("Tot", <<IntV(0)>>), AlgoCase("Tot", <<IntV(3)>>),
      AlgoCase("All", <<PyList(<<IntV(1), IntV(2)>>)>>), AlgoCase("All", <<NoneV>>),
      AlgoCase("Nest", <<IntV(1), IntV(1)>>), AlgoCase("Nest", <<IntV(0), IntV(1)>>),
      AlgoCase("Stop", <<IntV(2)>>),
      AlgoCase("Safe", <<IntV(2)>>),
      ExprCase(<<"Nope", "(", "Sign", "(", "1", ")", ")">>),
      ExprCase(<<"Inner", "(", "g", ")">>),
      ExprCase(<<"g">>),
      ExprCase(<<"Sign", "(", "1", ",", "2", ")">>),
      ExprCase(<<"Nope", "(", "value", "(", "Nil", ")", ")">>),
      StoreCase("Sign", <<IntV(5)>>, "r"), StoreCase("Sign", <<IntV(5)>>, "outputs"),
      StoreCase("Nope", <<IntV(1)>>, "outputs"),
      AlgoCase("Bad", <<IntV(1)>>), AlgoCase("Look", <<IntV(1)>>),
      AlgoCase("Dup", <<IntV(1)>>), AlgoCase("Dup", <<IntV(1), IntV(2)>>),
      AlgoCase("Cmp", <<IntV(1)>>), AlgoCase("Eq", <<IntV(1)>>),
      AlgoCase("Pick", <<IntV(1)>>),
      AlgoCase("WW", <<IntV(2)>>), AlgoCase("FF", <<IntV(2)>>),
      ExprCase(<<"Fall", "(", "1", ")">>), ExprCase(<<"Quit", "(", "1", ")">>),
      VarCase("g", <<"5">>), VarCase("t", <<"Sign", "(", "3", ")">>) }

\* the number of cases of a batch the model follows
MaxCases == 2

\* the machine at the start of a case: env.globals is the first dictionary,
\* and the local_env of the main script's eval_expr calls
Machine(f, g) ==
    [heap |-> <<g>>, funcs |-> f, loc |-> GLOBALS, inv |-> 0, ninv |-> 0, depth |-> 0,
     steps |-> 0, tr |-> <<>>]

NoCase == [type |-> "", algo |-> "", args |-> <<>>, var |-> "", expr |-> <<>>, store |-> ""]
Observed(c, r) ==
    [case |-> c, st |-> r.st, val |-> r.val, err |-> r.err, tr |-> r.m.tr]

OutValue(v) == [error |-> FALSE, val |-> v, err |-> NoErr]
OutError(e) == [error |-> TRUE, val |-> NoneV, err |-> e]

\* converted = [...] : a string argument is evaluated as an expression against
\* the globals, and kept as a string when that fails
ConvertArgs(arglist, converted, m) ==
    IF arglist = <<>> THEN [m |-> m, st |-> "ok", vals |-> converted]
    ELSE LET a == arglist[1]
         IN  IF a.t = "str"
             THEN LET r == Call("eval_expr", <<Toks(a), m>>)
                  IN  IF r.st = "limit" THEN [m |-> r.m, st |-> "limit", vals |-> converted]
                      ELSE Call("ConvertArgs", <<Tail(arglist),
                               Append(converted, IF r.st = "err" THEN py_to_dsl(a) ELSE r.val),
                               r.m>>)
             ELSE Call("ConvertArgs", <<Tail(arglist), Append(converted, py_to_dsl(a)), m>>)

\* one case of the loop `for case in exec_cases`, up to its output
ExecCase(c, f, g) ==
    LET m == Machine(f, g)
    IN  IF c.type \in {"var_assign", "dsl_expr"} THEN Call("eval_expr", <<c.expr, m>>)
        ELSE LET conv == Call("ConvertArgs", <<c.args, <<>>, m>>)
             IN  IF conv.st # "ok" THEN RLimit(conv.m)
                 \* execute_algorithm(algo, converted, main_env): caller_locals is None
                 ELSE LET r == Call("execute_algorithm",
                                    <<c.algo, conv.vals, [conv.m EXCEPT !.loc = 0]>>)
                      IN  [r EXCEPT !.m.loc = GLOBALS]

\* The operators above call each other through Call: Call(f, a) is f applied to
\* the arguments a.
Call(f, a) ==
    CASE f = "eval_expr" -> eval_expr(a[1], a[2])
      [] f = "eval_call" -> eval_call(a[1], a[2])
      [] f = "EvalArgs" -> EvalArgs(a[1], a[2], a[3])
      [] f = "PyEval" -> PyEval(a[1], a[2])
      [] f = "PyEvalArgs" -> PyEvalArgs(a[1], a[2], a[3])
      [] f = "PyEvalCmp" -> PyEvalCmp(a[1], a[2], a[3], a[4], a[5])
      [] f = "PyApply" -> PyApply(a[1], a[2], a[3])
      [] f = "execute_algorithm" -> execute_algorithm(a[1], a[2], a[3])
      [] f = "run_lines" -> run_lines(a[1], a[2], a[3], a[4])
      [] f = "run_statement" -> run_statement(a[1], a[2], a[3])
      [] f = "branch_statement" -> branch_statement(a[1], a[2], a[3])
      [] f = "process_if" -> process_if(a[1], a[2], a[3], a[4])
      [] f = "exec_branch" -> exec_branch(a[1], a[2], a[3], a[4], a[5])
      [] f = "TryBranches" -> TryBranches(a[1], a[2], a[3], a[4], a[5], a[6], a[7])
      [] f = "process_while" -> process_while(a[1], a[2], a[3], a[4])
      [] f = "WhileLoop" -> WhileLoop(a[1], a[2], a[3], a[4], a[5], a[6])
      [] f = "process_for" -> process_for(a[1], a[2], a[3], a[4])
      [] f = "ForLoop" -> ForLoop(a[1], a[2], a[3], a[4], a[5], a[6], a[7])
      [] f = "ParseOr" -> ParseOr(a[1])
      [] f = "ParseOrTail" -> ParseOrTail(a[1], a[2])
      [] f = "ParseAnd" -> ParseAnd(a[1])
      [] f = "ParseAndTail" -> ParseAndTail(a[1], a[2])
      [] f = "ParseNot" -> ParseNot(a[1])
      [] f = "ParseCmp" -> ParseCmp(a[1])
      [] f = "ParseCmpTail" -> ParseCmpTail(a[1], a[2], a[3], a[4])
      [] f = "ParseArith" -> ParseArith(a[1])
      [] f = "ParseArithTail" -> ParseArithTail(a[1], a[2])
      [] f = "ParseTerm" -> ParseTerm(a[1])
      [] f = "ParseTermTail" -> ParseTermTail(a[1], a[2])
      [] f = "ParseFactor" -> ParseFactor(a[1])
      [] f = "ParseTrailers" -> ParseTrailers(a[1], a[2])
      [] f = "ParseArgs" -> ParseArgs(a[1], a[2])
      [] f = "PyParse" -> PyParse(a[1])
      [] f = "ConvertArgs" -> ConvertArgs(a[1], a[2], a[3])
      [] f = "ExecCase" -> ExecCase(a[1], a[2], a[3])

\* the list library is not in use
LibIdle == [op |-> "idle", x |-> NoneV, L |-> NoneV, acc |-> Ok(NoneV), out |-> Ok(NoneV)]

Init ==
    /\ funcs = EmptyDict
    /\ globals = EmptyDict
    /\ outputs = <<>>
    /\ pc = "compile"
    /\ done = 0
    /\ last = [case |-> NoCase, st |-> "", val |-> NoneV, err |-> NoErr, tr |-> <<>>]
    /\ lib = LibIdle

\* main_env = compile_unnc(src_text); a failure leaves the empty Env()
Compile ==
    /\ pc = "compile"
    /\ LET c == compile_unnc(algorithm_txt)
       IN  funcs' = IF c.ok THEN c.funcs ELSE EmptyDict
    /\ pc' = "cases"
    /\ UNCHANGED <<globals, outputs, done, last, lib>>

\* {type: var_assign}: main_env.globals[var_name] = val, nothing is output
VarAssigned(c, r) ==
    /\ r.st # "limit"
    /\ funcs' = r.m.funcs
    /\ globals' = IF r.st = "ok" THEN Put(Globals(r.m), c.var, r.val) ELSE Globals(r.m)
    /\ outputs' = IF r.st = "ok" THEN outputs ELSE Append(outputs, OutError(r.err))
    /\ last' = Observed(c, r)

VarAssignCase(c) ==
    /\ pc = "cases" /\ done < MaxCases /\ c.type = "var_assign"
    /\ VarAssigned(c, ExecCase(c, funcs, globals))
    /\ done' = done + 1
    /\ UNCHANGED <<pc, lib>>

\* outputs.append(dsl_to_pyvalue(val)), or the error entry of the failed case
Output(c, r) ==
    /\ r.st # "limit"
    /\ funcs' = r.m.funcs
    /\ globals' = Globals(r.m)
    /\ outputs' = Append(outputs, IF r.st = "ok" THEN OutValue(dsl_to_pyvalue(r.val))
                                  ELSE OutError(r.err))
    /\ last' = Observed(c, r)

\* {type: dsl_expr}: val = eval_expr(expr_text, main_env.globals, main_env)
DslExprCase(c) ==
    /\ pc = "cases" /\ done < MaxCases /\ c.type = "dsl_expr"
    /\ Output(c, ExecCase(c, funcs, globals))
    /\ done' = done + 1
    /\ UNCHANGED <<pc, lib>>

\* outputs.append on a value that is no list
NoAppend == Err("AttributeError", "object has no attribute 'append'", "", 0, 0)

\* if store_var: globals()[store_var] = res, and then the output of the case.
\* The names of the main script are the module's globals: stored under the name
\* outputs, res takes the place of the list of outputs; the append fails, the
\* append of the handler fails in the same way with nothing to catch it, and
\* the run ends there, with no output file.  Stored under a name the script
\* does not use, res changes nothing.  (A store that names another function
\* or variable of the script is not followed.)
StoredOutput(c, r) ==
    IF r.st = "ok" /\ c.store = "outputs"
    THEN /\ funcs' = r.m.funcs
         /\ globals' = Globals(r.m)
         /\ outputs' = r.val
         /\ last' = Observed(c, RErr(r.m, NoAppend))
         /\ pc' = "crashed"
    ELSE /\ Output(c, r)
         /\ pc' = pc

\* {algo, args}: res = execute_algorithm(algo, converted, main_env)
AlgoCaseStep(c) ==
    /\ pc = "cases" /\ done < MaxCases /\ c.type = "algo"
    /\ StoredOutput(c, ExecCase(c, funcs, globals))
    /\ done' = done + 1
    /\ UNCHANGED lib

\* the outputs are written to the output file
Finish ==
    /\ pc = "cases"
    /\ pc' = "written"
    /\ UNCHANGED <<funcs, globals, outputs, done, last, lib>>

Next ==
    \/ Compile
    \/ \E c \in Cases : VarAssignCase(c)
    \/ \E c \in Cases : DslExprCase(c)
    \/ \E c \in Cases : AlgoCaseStep(c)
    \/ Finish

Spec == Init /\ [][Next]_vars

(***************************************************************************)
(* The list library on its own: its functions are applied to values that   *)
(* come from a case file.  x and L are JSON values converted by py_to_dsl:  *)
(* null is Nil, an array is a list structure (the empty array one with no   *)
(* elements).                                                              *)
(***************************************************************************)
\* the longest JSON array among the inputs
MaxLen == 2

JsonElems == {IntV(1), IntV(2), IntV(3)}

JsonArrays ==
    UNION {[1..n -> JsonElems] : n \in 0..MaxLen}

JsonLists == {NoneV} \cup {PyList(a) : a \in JsonArrays}

JsonValues == {IntV(0), IntV(1), NoneV, PyList(<<IntV(1)>>)}

InitLists ==
    /\ funcs = EmptyDict
    /\ globals = EmptyDict
    /\ outputs = <<>>
    /\ pc = "lists"
    /\ done = 0
    /\ last = [case |-> NoCase, st |-> "", val |-> NoneV, err |-> NoErr, tr |-> <<>>]
    /\ \E jx \in JsonValues, jl \in JsonLists :
          lib = [LibIdle EXCEPT !.op = "input", !.x = py_to_dsl(jx), !.L = py_to_dsl(jl)]

\* acc = cons(x, L)
ConsStep ==
    /\ lib.op = "input"
    /\ lib' = [lib EXCEPT !.op = "cons", !.acc = cons(lib.x, lib.L), !.out = cons(lib.x, lib.L)]
    /\ UNCHANGED <<funcs, globals, outputs, pc, done, last>>

\* value(acc)
ValueStep ==
    /\ lib.op = "cons" /\ lib.acc.st = "ok"
    /\ lib' = [lib EXCEPT !.op = "value", !.out = value(lib.acc.val)]
    /\ UNCHANGED <<funcs, globals, outputs, pc, done, last>>

\* tail(acc)
TailStep ==
    /\ lib.op = "cons" /\ lib.acc.st = "ok"
    /\ lib' = [lib EXCEPT !.op = "tail", !.out = tail(lib.acc.val)]
    /\ UNCHANGED <<funcs, globals, outputs, pc, done, last>>

\* isEmpty(acc)
IsEmptyStep ==
    /\ lib.op = "cons" /\ lib.acc.st = "ok"
    /\ lib' = [lib EXCEPT !.op = "isEmpty", !.out = Ok(Bool(isEmpty(lib.acc.val)))]
    /\ UNCHANGED <<funcs, globals, outputs, pc, done, last>>

\* value(L)
ValueOfStep ==
    /\ lib.op = "input"
    /\ lib' = [lib EXCEPT !.op = "value_L", !.out = value(lib.L)]
    /\ UNCHANGED <<funcs, globals, outputs, pc, done, last>>

\* tail(L)
TailOfStep ==
    /\ lib.op = "input"
    /\ lib' = [lib EXCEPT !.op = "tail_L", !.out = tail(lib.L)]
    /\ UNCHANGED <<funcs, globals, outputs, pc, done, last>>

\* merge(L, L2) for a second list L2 of the case file, kept in x
MergeStep(jl) ==
    /\ lib.op = "input"
    /\ lib' = [lib EXCEPT !.op = "merge", !.x = py_to_dsl(jl),
                          !.out = merge(lib.L, py_to_dsl(jl))]
    /\ UNCHANGED <<funcs, globals, outputs, pc, done, last>>

NextLists ==
    \/ ConsStep \/ ValueStep \/ TailStep \/ IsEmptyStep
    \/ ValueOfStep \/ TailOfStep
    \/ \E jl \in JsonLists : MergeStep(jl)

SpecLists == InitLists /\ [][NextLists]_vars

(***************************************************************************)
(* Properties.  They are stated over the record of the last executed case: *)
(* last.tr lists, in order, the invocations entered and left, the          *)
(* statements executed, the conditions evaluated and the names bound.      *)
(***************************************************************************)
Tr == last.tr

CallEvents == {p \in DOMAIN Tr : Tr[p].e = "call"}
\* the events of the invocation entered at p
EventsOf(p) == {q \in DOMAIN Tr : Tr[q].inv = Tr[p].inv}
\* where the invocation entered at p is left
ExitsOf(p) == {q \in EventsOf(p) : Tr[q].e = "exit"}
\* the invocation entered at p is left at once with exception e, no statement executed
FailsAtOnce(p, e) ==
    /\ p + 1 \in DOMAIN Tr
    /\ Tr[p + 1].e = "exit" /\ Tr[p + 1].inv = Tr[p].inv
    /\ Tr[p + 1].x = "err" /\ Tr[p + 1].err = e

\* C1: the caller's scope has the same names and values when an invocation
\* returns or fails as it had when the invocation was entered, whatever the
\* callee assigned or bound in between.
C1_ScopeIsolation ==
    \A p \in CallEvents : \A q \in ExitsOf(p) : Tr[q].sc = Tr[p].sc

\* a callee that fails after it assigned an inherited name a different value and
\* bound a loop variable of the caller's name
C1_Witness ==
    \E p \in CallEvents : \E q \in ExitsOf(p) :
        /\ Tr[q].x = "err"
        /\ \E a \in EventsOf(p) :
              /\ Tr[a].e = "assign" /\ Tr[a].x \in DOMAIN Tr[p].sc
              /\ Tr[a].v # Tr[p].sc[Tr[a].x]
        /\ \E i \in EventsOf(p) :
              /\ Tr[i].e = "iter" /\ Tr[i].x \in DOMAIN Tr[p].sc
              /\ Tr[i].v # Tr[p].sc[Tr[i].x]

\* C2: executing a case never changes the registry; the globals are the same
\* when an invocation is left as when it was entered, at any depth, and over a
\* whole case they change only when the case is a variable assignment, and
\* then only at the assigned name.
C2_EnvironmentFrame ==
    [][(pc = "cases" /\ pc' = "cases") =>
         /\ funcs' = funcs
         /\ \A p \in DOMAIN last'.tr : \A q \in DOMAIN last'.tr :
               (last'.tr[p].e = "call" /\ last'.tr[q].e = "exit"
                /\ last'.tr[q].inv = last'.tr[p].inv)
               => (last'.tr[q].g = last'.tr[p].g /\ last'.tr[p].g = globals)
         /\ last'.case.type # "var_assign" => globals' = globals
         /\ last'.case.type = "var_assign" =>
               \A k \in (DOMAIN globals \cup DOMAIN globals') \ {last'.case.var} :
                   k \in DOMAIN globals /\ k \in DOMAIN globals' /\ globals'[k] = globals[k]]_vars

\* a nested invocation has assigned a name that is a global, with another value
C2_Witness ==
    /\ last.case.type = "algo" /\ last.st = "ok"
    /\ \E p \in CallEvents : \E a \in EventsOf(p) :
          /\ Tr[p].id >= 1
          /\ Tr[a].e = "assign" /\ Tr[a].x \in DOMAIN globals
          /\ Tr[a].v # globals[Tr[a].x]

\* C3: an invocation of a registered algorithm of n parameters with m # n
\* arguments fails with the arity error naming the algorithm, n and m, and no
\* statement of its body is executed.
C3_ArityCheck ==
    \A p \in CallEvents :
        (/\ Tr[p].x \in DOMAIN funcs
         /\ Len(Tr[p].v.s) # Len(funcs[Tr[p].x].params)
         /\ Tr[p].id < MaxDepth)
        => FailsAtOnce(p, Err("ValueError", "Argument mismatch", Tr[p].x,
                              Len(funcs[Tr[p].x].params), Len(Tr[p].v.s)))

\* an algorithm of one parameter was invoked with two arguments
C3_Witness ==
    \E p \in CallEvents :
        /\ Tr[p].x \in DOMAIN funcs
        /\ Len(funcs[Tr[p].x].params) = 1 /\ Len(Tr[p].v.s) = 2
        /\ \E q \in ExitsOf(p) : Tr[q].err.a = 1 /\ Tr[q].err.b = 2

\* an invocation of a name that is not in the registry fails at once with the
\* lookup error naming it
UnregisteredFail ==
    \A p \in CallEvents :
        (Tr[p].x \notin DOMAIN funcs /\ Tr[p].id < MaxDepth)
        => FailsAtOnce(p, Err("KeyError", "", Tr[p].x, 0, 0))

\* the case evaluates a call-form expression whose function name is neither a
\* builtin nor a registered algorithm
UnknownCall(c) ==
    /\ c.type \in {"var_assign", "dsl_expr"}
    /\ Len(c.expr) >= 3 /\ IsIdent(c.expr[1]) /\ c.expr[2] = "("
    /\ c.expr[Len(c.expr)] = ")"
    /\ c.expr[1] \notin Builtins \cup DOMAIN funcs

\* the evaluation of the arguments of the case's call-form expression
ArgsOf(c) ==
    LET args_str == SubSeq(c.expr, 3, Len(c.expr) - 1)
        m        == Machine(funcs, globals)
    IN  IF args_str = <<>> THEN [m |-> m, st |-> "ok", vals |-> <<>>, err |-> NoErr]
        ELSE Call("EvalArgs", <<SplitArgs(args_str, 0, <<>>, <<>>), <<>>, m>>)

\* C4 as stated: an unknown algorithm name, or a call-form expression of an
\* unknown function name, fails with a name-resolution error naming the
\* identifier, and no body statement is executed.
C4_AsStated ==
    /\ UnregisteredFail
    /\ UnknownCall(last.case) =>
          /\ last.st = "err"
          /\ last.err.kind = "NameError" /\ last.err.name = last.case.expr[1]
          /\ \A p \in DOMAIN Tr : Tr[p].e # "stmt"

\* C4, amended: an unknown algorithm name fails with the lookup error naming it
\* and no body statement is executed.  A call-form expression of an unknown
\* function name first evaluates its arguments, which may execute the bodies of
\* the algorithms they call; when an argument fails, that failure is the
\* outcome; otherwise the expression fails with the name error naming the
\* identifier, and nothing is executed beyond the evaluation of the arguments.
C4_UnknownNames ==
    /\ UnregisteredFail
    /\ UnknownCall(last.case) =>
          /\ Tr = ArgsOf(last.case).m.tr
          /\ last.st = "err"
          /\ IF ArgsOf(last.case).st = "ok"
             THEN /\ last.err.kind = "NameError" /\ last.err.what = "Unknown function"
                  /\ last.err.name = last.case.expr[1]
             ELSE last.err = ArgsOf(last.case).err

\* an unknown function name whose argument called an algorithm, the body of
\* which was executed
C4_Witness ==
    /\ UnknownCall(last.case) /\ ArgsOf(last.case).st = "ok"
    /\ last.err.name = last.case.expr[1]
    /\ \E p \in DOMAIN Tr : Tr[p].e = "stmt"

(***************************************************************************)
(* The block structure of a body, with the nesting of its constructs, and  *)
(* the part of the record that belongs to one execution of a construct.    *)
(***************************************************************************)
IsOpener(ln) == StartsWithKw(ln, "if") \/ StartsWithKw(ln, "while") \/ StartsWithKw(ln, "for")
IsCloser(ln) == IsKwLine(ln, "endif") \/ IsKwLine(ln, "endwhile") \/ IsKwLine(ln, "endfor")
\* a line that belongs to the construct around it, not a statement of its own
IsBoundary(ln) == IsCloser(ln) \/ IsKwLine(ln, "else") \/ StartsWithKw(ln, "elseif")

\* how many constructs opened after line i are still open before line k
NestingAt(body, i, k) ==
    Cardinality({j \in (i + 1)..(k - 1) : IsOpener(body[j])})
    - Cardinality({j \in (i + 1)..(k - 1) : IsCloser(body[j])})

\* the lines after i that are directly in the construct line i opens
ClosersOf(body, i) ==
    {k \in (i + 1)..Len(body) : IsCloser(body[k]) /\ NestingAt(body, i, k) = 0}
\* the line that closes the construct line i opens (past the end when none does)
MatchingEnd(body, i) ==
    IF ClosersOf(body, i) = {} THEN Len(body) + 1
    ELSE CHOOSE k \in ClosersOf(body, i) : \A j \in ClosersOf(body, i) : k <= j

\* the if line i and its elseif lines; its else line
HeadersOf(body, i) ==
    {i} \cup {k \in (i + 1)..(MatchingEnd(body, i) - 1) :
                 StartsWithKw(body[k], "elseif") /\ NestingAt(body, i, k) = 0}
ElseOf(body, i) ==
    {k \in (i + 1)..(MatchingEnd(body, i) - 1) :
        IsKwLine(body[k], "else") /\ NestingAt(body, i, k) = 0}
\* the line at which the branch that line h opens ends
BranchEnd(body, i, h) ==
    LET marks == {k \in HeadersOf(body, i) \cup ElseOf(body, i) \cup {MatchingEnd(body, i)} : k > h}
    IN  CHOOSE k \in marks : \A j \in marks : k <= j

StmtEvents == {q \in DOMAIN Tr : Tr[q].e = "stmt"}
\* where the invocation of event q was entered, and the body it executes
EntryOf(q) == CHOOSE p \in CallEvents : Tr[p].inv = Tr[q].inv
BodyAt(q)  == funcs[Tr[EntryOf(q)].x].body
LineOf(q)  == BodyAt(q)[Tr[q].id]

\* the later events of q's invocation, and the next one
After(q)  == {r \in EventsOf(q) : r > q}
NextOf(q) == CHOOSE r \in After(q) : \A z \in After(q) : r <= z
\* event r is not part of the execution, begun at q, of the construct on lines i..e
LeavesAt(r, i, e) == Tr[r].id \notin i..e \/ (Tr[r].e = "stmt" /\ Tr[r].id = i)
WindowEnd(q, i, e) ==
    CHOOSE r \in After(q) : LeavesAt(r, i, e) /\ \A z \in After(q) : LeavesAt(z, i, e) => r <= z
Window(q, i, e) == {r \in After(q) : r < WindowEnd(q, i, e)}
\* execution goes on with the statement after line e, where there is one
ContinuesAfter(q, i, e) ==
    (e + 1 \in DOMAIN BodyAt(q) /\ ~IsBoundary(BodyAt(q)[e + 1]))
    => (Tr[WindowEnd(q, i, e)].e = "stmt" /\ Tr[WindowEnd(q, i, e)].id = e + 1)

\* the value of expr in the scope in which the statement of event q is executed
EvalIn(q, expr) ==
    Call("eval_expr", <<expr, [heap |-> <<Tr[EntryOf(q)].g, Tr[q].sc>>, funcs |-> funcs,
                              loc |-> 2, inv |-> 0, ninv |-> 0, depth |-> 0, steps |-> 0,
                              tr |-> <<>>]>>)

\* the statements whose line opens a construct of the kind kw
Openers(kw) ==
    {q \in StmtEvents : Tr[q].id \in DOMAIN BodyAt(q) /\ StartsWithKw(LineOf(q), kw)}
\* the lines of the statements executed among the events W
LinesRun(W) == {Tr[r].id : r \in {r \in W : Tr[r].e = "stmt"}}

\* the condition on header line h of the if executed at q, in q's scope
CondOf(q, h) == EvalIn(q, DropClosing(Tail(BodyAt(q)[h]), "then"))
IsFalse(r) == r.st = "ok" /\ ~Truthy(r.val)
IsTrue(r)  == r.st = "ok" /\ Truthy(r.val)

\* the if executed at q: its conditions are evaluated in source order up to the
\* first true one, the branch of that one (the else branch when none is true)
\* is the only one executed, and with no branch to execute the statement after
\* endif is next
IfSelection(q) ==
    LET body == BodyAt(q)
        i    == Tr[q].id
        e    == MatchingEnd(body, i)
        H    == HeadersOf(body, i)
        W    == Window(q, i, e)
        Reached(h)  == \A h2 \in H : h2 < h => IsFalse(CondOf(q, h2))
        Taken(h)    == Reached(h) /\ IsTrue(CondOf(q, h))
        Evals(h)    == {r \in W : Tr[r].e = "cond" /\ Tr[r].id = h}
        Runs(h)     == /\ LinesRun(W) \subseteq (h + 1)..(BranchEnd(body, i, h) - 1)
                       /\ BranchEnd(body, i, h) > h + 1 => h + 1 \in LinesRun(W)
    IN  /\ \A h \in H :
              /\ (Reached(h) /\ CondOf(q, h).st = "ok") =>
                    /\ Cardinality(Evals(h)) = 1
                    /\ \A r \in Evals(h) : Tr[r].v = Bool(Truthy(CondOf(q, h).val))
              /\ (\E h2 \in H : h2 < h /\ Taken(h2)) => Evals(h) = {}
              /\ Taken(h) => Runs(h)
        /\ \A h \in H : \A h2 \in H :
              h < h2 => \A r \in Evals(h) : \A r2 \in Evals(h2) : r < r2
        /\ (\A h \in H : IsFalse(CondOf(q, h))) =>
              IF ElseOf(body, i) # {} THEN \A k \in ElseOf(body, i) : Runs(k)
              ELSE LinesRun(W) = {} /\ ContinuesAfter(q, i, e)

\* if x>0 then / return 1 / elseif x<0 then / return -1 / else / return 0 / endif
SignBody ==
    << <<"if", "x", ">", "0", "then">>, <<"return", "1">>,
       <<"elseif", "x", "<", "0", "then">>, <<"return", "-", "1">>,
       <<"else">>, <<"return", "0">>, <<"endif">> >>
SignExample ==
    \A x \in {-3, 0, 5} :
        (/\ last.case = AlgoCase("Sign", <<IntV(x)>>)
         /\ "Sign" \in DOMAIN funcs /\ funcs["Sign"].body = SignBody)
        => (last.st = "ok"
            /\ last.val = IntV(IF x > 0 THEN 1 ELSE IF x < 0 THEN -1 ELSE 0))

\* C5: every if construct that is executed selects its branch as IfSelection
\* says, and the three-way sign body returns 1, -1 and 0 for 5, -3 and 0.
C5_IfSelection ==
    /\ \A q \in Openers("if") : IfSelection(q)
    /\ SignExample

\* C6: once a return statement has been executed, with or without a value, the
\* next thing its invocation does is end, yielding the returned value: no
\* further statement is executed and no further loop iteration starts.
C6_ReturnTerminates ==
    \A r \in DOMAIN Tr :
        Tr[r].e = "ret" =>
            /\ Tr[NextOf(r)].e = "exit" /\ Tr[NextOf(r)].x = "ok"
            /\ Tr[NextOf(r)].v = Tr[r].v

\* the events among W of the kind e for the construct on line i, and the
\* executions of the first statement of its body
EventsAt(W, e, i) == {r \in W : Tr[r].e = e /\ Tr[r].id = i}
BodyStarts(W, i)  == {r \in W : Tr[r].e = "stmt" /\ Tr[r].id = i + 1}

\* the while executed at q: its condition is evaluated first and before every
\* iteration, the body is executed once per true evaluation and the loop is
\* left at the first false one; false on entry, no statement of the body is
\* executed and the statement after the matching endwhile is next, in the
\* same scope
WhileSemantics(q) ==
    LET body == BodyAt(q)
        i    == Tr[q].id
        e    == MatchingEnd(body, i)
        W    == Window(q, i, e)
        c0   == EvalIn(q, DropClosing(Tail(body[i]), "do"))
        out  == WindowEnd(q, i, e)
    IN  /\ c0.st = "ok" =>
              /\ NextOf(q) \in EventsAt(W, "cond", i)
              /\ Tr[NextOf(q)].v = Bool(Truthy(c0.val))
        /\ e > i + 1 =>
              /\ \A r \in EventsAt(W, "cond", i) :
                    IF Tr[r].v = Bool(TRUE) THEN NextOf(r) \in BodyStarts(W, i)
                    ELSE NextOf(r) = out
              /\ \A b \in BodyStarts(W, i) :
                    \E r \in EventsAt(W, "cond", i) : Tr[r].v = Bool(TRUE) /\ NextOf(r) = b
        /\ IsFalse(c0) =>
              /\ LinesRun(W) = {}
              /\ ContinuesAfter(q, i, e)
              /\ Tr[out].e = "stmt" => Tr[out].sc = Tr[q].sc

\* C7: every while loop that is executed behaves as WhileSemantics says.
C7_WhileSemantics == \A q \in Openers("while") : WhileSemantics(q)

\* the loop executed at q binds var_name to the values of items, in order, and
\* executes its body once for each; it stops short only when the invocation ends
Iterates(q, var_name, items) ==
    LET body  == BodyAt(q)
        i     == Tr[q].id
        e     == MatchingEnd(body, i)
        W     == Window(q, i, e)
        iters == EventsAt(W, "iter", i)
        Nth(r) == Cardinality({z \in iters : z <= r})
    IN  /\ \A r \in iters :
              /\ Nth(r) <= Len(items)
              /\ Tr[r].x = var_name /\ Tr[r].v = items[Nth(r)]
        /\ Cardinality(iters) < Len(items) => Tr[WindowEnd(q, i, e)].e = "exit"
        /\ e > i + 1 =>
              /\ \A r \in iters :
                    /\ NextOf(r) \in BodyStarts(W, i)
                    /\ var_name \in DOMAIN Tr[NextOf(r)].sc
                    /\ Tr[NextOf(r)].sc[var_name] = Tr[r].v
              /\ \A b \in BodyStarts(W, i) : \E r \in iters : NextOf(r) = b

\* the integers of [a, b], ascending
Inclusive(a, b) == [k \in 1..(IF b >= a THEN b - a + 1 ELSE 0) |-> IntV(a + k - 1)]

\* the for-range loop executed at q: a and b are evaluated once, at entry, and
\* the body is executed for each integer of [a, b] in ascending order
ForRangeSemantics(q) ==
    LET body == BodyAt(q)
        i    == Tr[q].id
        W    == Window(q, i, MatchingEnd(body, i))
        p    == ForRangeParts(body[i])
        a    == EvalIn(q, p.start_expr)
        b    == EvalIn(q, p.end_expr)
    IN  (a.st = "ok" /\ b.st = "ok" /\ a.val.t = "int" /\ b.val.t = "int") =>
            /\ EventsAt(W, "range", i) = {NextOf(q)}
            /\ Tr[NextOf(q)].v = ListV(<<a.val, b.val>>)
            /\ Iterates(q, p.var_name, Inclusive(a.val.n, b.val.n))

\* let s = 0 / for i from 1 to 3 do / let s = s + i / endfor / return s
SixBody ==
    << <<"let", "s", "=", "0">>, <<"for", "i", "from", "1", "to", "3", "do">>,
       <<"let", "s", "=", "s", "+", "i">>, <<"endfor">>, <<"return", "s">> >>
SixExample ==
    (/\ last.case = AlgoCase("Six", <<>>)
     /\ "Six" \in DOMAIN funcs /\ funcs["Six"].body = SixBody)
    => (last.st = "ok" /\ last.val = IntV(6))

\* C8: every for-range loop that is executed behaves as ForRangeSemantics
\* says, whatever its body assigns, and the sum of 1..3 comes out as 6.
C8_ForRangeSemantics ==
    /\ \A q \in Openers("for") : IsForRange(LineOf(q)) => ForRangeSemantics(q)
    /\ SixExample

\* the for-each loop executed at q: the collection is evaluated once; the body
\* is executed for each element of a list, front to back, not at all for Nil,
\* and once for any other value
ForEachSemantics(q) ==
    LET body == BodyAt(q)
        i    == Tr[q].id
        W    == Window(q, i, MatchingEnd(body, i))
        p    == ForInParts(body[i])
        c    == EvalIn(q, p.list_expr)
    IN  c.st = "ok" =>
            /\ EventsAt(W, "coll", i) = {NextOf(q)}
            /\ Tr[NextOf(q)].v = c.val
            /\ Iterates(q, p.var_name,
                        IF IsList(c.val) THEN c.val.s
                        ELSE IF c.val = Nil THEN <<>> ELSE <<c.val>>)

\* C9: every for-each loop that is executed behaves as ForEachSemantics says.
C9_ForEachSemantics ==
    \A q \in Openers("for") :
        (IsForIn(LineOf(q)) /\ ~IsForRange(LineOf(q))) => ForEachSemantics(q)

\* C10: for every value x and every list L that cons accepts (Nil, or a list
\* structure of any length, zero included), value(cons(x, L)) = x,
\* tail(cons(x, L)) = L and isEmpty(cons(x, L)) is false.
C10_AccessorLaws ==
    (lib.op \in {"value", "tail", "isEmpty"} /\ cons(lib.x, lib.L).st = "ok") =>
        /\ lib.op = "value" => lib.out = Ok(lib.x)
        /\ lib.op = "tail" => lib.out = Ok(lib.L)
        /\ lib.op = "isEmpty" => lib.out = Ok(Bool(FALSE))

\* C11: for every list L with isEmpty(L) true, the Nil sentinel and the list
\* structure of zero elements alike, value(L) and tail(L) both fail with the
\* error of an accessor applied to the wrong variant, and return no value.
C11_AccessorsFailOnEmpty ==
    (lib.op \in {"value_L", "tail_L"} /\ isEmpty(lib.L)) =>
        (lib.out.st = "err" /\ lib.out.err.kind = "ValueError")

\* the elements of a list, front to back
ElementsOf(L) == IF L = Nil THEN <<>> ELSE L.s

\* merge(cons(1, cons(2, Empty)), cons(3, Empty)) is [1, 2, 3]
MergeExample ==
    (lib.op = "merge" /\ lib.L = cons(IntV(1), cons(IntV(2), Nil).val).val
     /\ lib.x = cons(IntV(3), Nil).val)
    => lib.out = Ok(ListV(<<IntV(1), IntV(2), IntV(3)>>))

\* C12: merge(L1, L2) holds the elements of L1 in their order and then those
\* of L2 in theirs; merge(Empty, L) = L and merge(L, Empty) = L for every
\* list L; and the lists [1, 2] and [3] merge to [1, 2, 3].
C12_MergeConcatenates ==
    lib.op = "merge" =>
        /\ lib.out.st = "ok"
        /\ ElementsOf(lib.out.val) = ElementsOf(lib.L) \o ElementsOf(lib.x)
        /\ lib.L = Nil => lib.out.val = lib.x
        /\ lib.x = Nil => lib.out.val = lib.L
        /\ MergeExample

\* the entry of the outputs for a case that ended with value v, with exception e
ValueEntry(v) == [error |-> FALSE, val |-> dsl_to_pyvalue(v), err |-> NoErr]
ErrorEntry(e) == [error |-> TRUE, val |-> NoneV, err |-> e]

\* C13: a case that raises an error adds exactly one error entry, with its
\* message, at the end of the outputs, after the entries of the cases before
\* it; a case that yields a value adds that value there (a variable assignment
\* adds nothing); and after either the batch goes on with the next case.
C13_PartialFailure ==
    [][(pc = "cases" /\ done' = done + 1) =>
         /\ pc' = "cases"
         /\ last'.st = "err" => outputs' = Append(outputs, ErrorEntry(last'.err))
         /\ last'.st = "ok" =>
               outputs' = IF last'.case.type = "var_assign" THEN outputs
                          ELSE Append(outputs, ValueEntry(last'.val))]_vars

\* The statements that open no construct: a let, an arrow assignment, a
\* return, a statement with an = that is not part of == (an assignment), and
\* any other, a bare expression
IsLet(s)    == StartsWithKw(s, "let") /\ HasEqTok(Tail(s))
IsReturn(s) == s # <<>> /\ Lower(s[1]) = "return"
IsStore(s)  == \E i \in 1..Len(s) : HasEq(s[i]) /\ s[i] # "=="
IsBare(s)   == ~IsOpener(s) /\ ~StartsWithKw(s, "let") /\ ~HasArrow(s) /\ ~IsReturn(s)
               /\ ~IsStore(s)
HasRhs(s)   == ~IsOpener(s)
               /\ (IsLet(s) \/ (~StartsWithKw(s, "let")
                                /\ (HasArrow(s) \/ IsReturn(s) \/ IsStore(s))))
RhsOf(s)    == IF IsLet(s) THEN SplitEq(Tail(s)).rhs
               ELSE IF HasArrow(s) THEN SplitArrow(s).rhs
               ELSE IF IsReturn(s) THEN Tail(s)
               ELSE SplitEq(s).rhs

Stmts(P(_)) == {q \in StmtEvents : Tr[q].id \in DOMAIN BodyAt(q) /\ P(LineOf(q))}
\* the invocation ends at event r without a value
Aborts(r) == Tr[r].e = "exit" /\ Tr[r].x # "ok" /\ After(r) = {}

\* the bare expression executed at q fails: the failure is passed over, the
\* statement on the next line, where the block has one, is next, and it is
\* executed in the scope the bare expression was executed in
SkipsOver(q) ==
    LET r    == NextOf(q)
        next == Tr[q].id + 1
    IN  /\ Tr[r].e = "skip"
        /\ ~Aborts(NextOf(r))
        /\ Tr[NextOf(r)].e = "stmt" => Tr[NextOf(r)].sc = Tr[q].sc
        /\ (next \in DOMAIN BodyAt(q) /\ ~IsBoundary(BodyAt(q)[next]))
              => (Tr[NextOf(r)].e = "stmt" /\ Tr[NextOf(r)].id = next)

\* C14: a bare expression whose evaluation fails is passed over, with the
\* scope as it was and the next statement executed next; a let, arrow or
\* equals assignment or a return whose expression fails ends the invocation
\* with that failure, and no statement is executed after it.
C14_BestEffort ==
    /\ \A q \in Stmts(IsBare) :
          EvalIn(q, LineOf(q)).st = "err" =>
              (SkipsOver(q) \/ (Aborts(NextOf(q)) /\ Tr[NextOf(q)].x = "limit"))
    /\ \A q \in Stmts(HasRhs) :
          (RhsOf(LineOf(q)) # <<>> /\ EvalIn(q, RhsOf(LineOf(q))).st = "err")
              => Aborts(NextOf(q))

\* event r is the storing or returning of the value v
Yields(r, v) == Tr[r].e \in {"assign", "ret"} /\ Tr[r].v = v
\* the statement's expression is one identifier
ReadsName(s) == HasRhs(s) /\ Len(RhsOf(s)) = 1 /\ IsIdent(RhsOf(s)[1])

\* the identifier read at q is resolved as a literal, else as a name of the
\* scope, else as a global, else by the fallback, which knows the builtins and
\* the algorithms and fails on any other name
Resolved(q) ==
    LET x  == RhsOf(LineOf(q))[1]
        sc == Tr[q].sc
        g  == Tr[EntryOf(q)].g
        r  == NextOf(q)
    IN  IF parse_literal(<<x>>) # NoneV THEN Yields(r, parse_literal(<<x>>))
        ELSE IF x \in DOMAIN sc THEN Yields(r, sc[x])
        ELSE IF x \in DOMAIN g THEN Yields(r, g[x])
        ELSE x \notin Builtins \cup DOMAIN funcs
                => (Aborts(r) /\ Tr[r].err.kind = "ValueError" /\ Tr[r].err.name = x)

\* the invocations that get as far as their first statement
Entered ==
    {p \in CallEvents : /\ Tr[p].x \in DOMAIN funcs /\ Tr[p].id < MaxDepth
                        /\ Len(Tr[p].v.s) = Len(funcs[Tr[p].x].params)
                        /\ funcs[Tr[p].x].body # <<>>}
\* the scope of the invocation entered at p has every parameter bound to its
\* argument, and every other name of the caller's scope with the caller's value
ParamsShadow(p) ==
    LET params == funcs[Tr[p].x].params
        first  == Tr[NextOf(p)]
    IN  /\ first.e = "stmt"
        /\ \A i \in DOMAIN params :
              (\A j \in DOMAIN params : params[j] = params[i] => j <= i)
              => (params[i] \in DOMAIN first.sc /\ first.sc[params[i]] = Tr[p].v.s[i])
        /\ \A k \in DOMAIN Tr[p].sc \ {params[i] : i \in DOMAIN params} :
              k \in DOMAIN first.sc /\ first.sc[k] = Tr[p].sc[k]

\* C15: an identifier is resolved as literal, then in the scope, then in the
\* globals, then by the fallback: bound in both the scope and the globals it
\* has the scope's value, bound in the globals only it has the global value;
\* and in a callee a parameter has its argument's value whatever the caller
\* binds under that name.
C15_ResolutionOrder ==
    /\ \A q \in Stmts(ReadsName) : Resolved(q)
    /\ \A p \in Entered : ParamsShadow(p)

\* one invocation read a name of the globals only, and later the same name
\* bound in its scope to another value; and a callee was entered with a
\* parameter that its caller binds to another value
C15_Witness ==
    /\ \E q \in Stmts(ReadsName) : \E q2 \in Stmts(ReadsName) :
          LET x == RhsOf(LineOf(q))[1]
          IN  /\ Tr[q].inv = Tr[q2].inv /\ RhsOf(LineOf(q2))[1] = x
              /\ x \notin DOMAIN Tr[q].sc /\ x \in DOMAIN Tr[EntryOf(q)].g
              /\ Yields(NextOf(q), Tr[EntryOf(q)].g[x])
              /\ x \in DOMAIN Tr[q2].sc /\ Tr[q2].sc[x] # Tr[EntryOf(q)].g[x]
              /\ Yields(NextOf(q2), Tr[q2].sc[x])
    /\ \E p \in Entered : \E i \in DOMAIN funcs[Tr[p].x].params :
          LET x == funcs[Tr[p].x].params[i]
          IN  /\ x \in DOMAIN Tr[p].sc /\ Tr[p].sc[x] # Tr[p].v.s[i]
              /\ Tr[NextOf(p)].sc[x] = Tr[p].v.s[i]

(***************************************************************************)
(* Sources of well-formed blocks, and what a source defines.               *)
(***************************************************************************)
\* the number of blocks of a source
MaxBlocks == 3
Blocks ==
    { << <<"Algorithm", "A", "(", "x", ")">>, <<"return", "1">> >>,
      << <<"Algorithm", "A", "(", ")">>, <<"Returns", "2">>, <<"return", "2">>, <<>> >>,
      << <<"Algorithm", ":", "B", "(", "x", ",", "y", ")">>,
         <<"Step", "1", ":", "let", "x", "=", "y">>, <<"return", "x">> >> }
RECURSIVE Sources(_)
Sources(n) ==
    IF n = 0 THEN {<<>>}
    ELSE Sources(n - 1) \cup {src \o b : src \in Sources(n - 1), b \in Blocks}

\* the header lines of src, the last one of a name, and the lines under it
HeadersIn(src)    == {i \in DOMAIN src : IsHeaderLine(src[i])}
NamesIn(src)      == {parse_header(src[i]).name : i \in HeadersIn(src)}
LastOf(src, name) ==
    CHOOSE i \in HeadersIn(src) :
        /\ parse_header(src[i]).name = name
        /\ \A j \in HeadersIn(src) : parse_header(src[j]).name = name => j <= i
Under(src, i) ==
    LET later == {j \in HeadersIn(src) : j > i}
        e     == IF later = {} THEN Len(src)
                 ELSE (CHOOSE j \in later : \A k \in later : j <= k) - 1
    IN  SelectSeq(SubSeq(src, i + 1, e), LAMBDA ln : ln # <<>>)
\* every name of src with the parameters and the body of its last block
LastWriter(src) ==
    [name \in NamesIn(src) |->
        [params |-> parse_header(src[LastOf(src, name)]).params,
         body   |-> BodyOf(Under(src, LastOf(src, name)))]]

\* C16: compiling registers every name that has a block, with the parameters
\* and the body of the last block of that name, for the pseudocode of the
\* model and for every source of up to MaxBlocks blocks; and no case that is
\* executed afterwards changes the registry.
C16_LastWriterWins ==
    [][/\ pc = "compile" =>
            /\ funcs' = LastWriter(algorithm_txt)
            /\ \A src \in Sources(MaxBlocks) \ {<<>>} :
                  /\ compile_unnc(src).ok
                  /\ compile_unnc(src).funcs = LastWriter(src)
       /\ pc = "cases" => funcs' = funcs]_vars

\* the pseudocode has two blocks of one name with different parameters, and
\* the algorithm of that name has been executed
C16_Witness ==
    /\ \E i \in HeadersIn(algorithm_txt) : \E j \in HeadersIn(algorithm_txt) :
          /\ i < j
          /\ parse_header(algorithm_txt[i]).name = parse_header(algorithm_txt[j]).name
          /\ parse_header(algorithm_txt[i]).params # parse_header(algorithm_txt[j]).params
          /\ last.case.algo = parse_header(algorithm_txt[i]).name
    /\ pc = "cases" /\ last.case.type = "algo" /\ last.st = "ok"

\* a bare expression that compares with ==
IsComparison(s) == IsBare(s) /\ \E i \in 1..Len(s) : s[i] = "=="

\* C17: a statement binds a name only when it is a let, an arrow assignment
\* or has an = that is not part of ==; a bare comparison with == that can be
\* evaluated binds nothing and raises nothing: the invocation goes on, in the
\* same scope.
C17_AssignmentOrComparison ==
    /\ \A q \in Stmts(IsBare) : Tr[NextOf(q)].e # "assign"
    /\ \A q \in Stmts(IsComparison) :
          EvalIn(q, LineOf(q)).st = "ok" =>
              /\ ~(Aborts(NextOf(q)) /\ Tr[NextOf(q)].x = "err")
              /\ Tr[NextOf(q)].e = "stmt" => Tr[NextOf(q)].sc = Tr[q].sc

\* the first line after i that ends a loop of the kind kw, and the one after it
EndsAfter(body, i, kw) == {k \in (i + 1)..Len(body) : IsKwLine(body[k], "end" \o kw)}
FirstEnd(body, i, kw) ==
    IF EndsAfter(body, i, kw) = {} THEN Len(body) + 1
    ELSE CHOOSE k \in EndsAfter(body, i, kw) : \A j \in EndsAfter(body, i, kw) : k <= j
\* line i is within the lines of a loop that begins before it
Enclosed(body, i) ==
    \E h \in 1..(i - 1) : \E kw \in {"while", "for"} :
        StartsWithKw(body[h], kw) /\ i < FirstEnd(body, h, kw)

\* the loops of the kind kw that are executed as loops, are in no other loop,
\* and have a loop of the same kind directly in their body
OuterLoops(kw) ==
    {q \in Openers(kw) :
        /\ Tr[NextOf(q)].e \in {"cond", "range", "coll"}
        /\ ~Enclosed(BodyAt(q), Tr[q].id)
        /\ \E j \in (Tr[q].id + 1)..(FirstEnd(BodyAt(q), Tr[q].id, kw) - 1) :
              StartsWithKw(BodyAt(q)[j], kw)}
\* the starts of the iterations of the loop on line i
Rounds(q, i) ==
    {r \in EventsOf(q) : Tr[r].id = i /\ (Tr[r].e = "iter" \/ (Tr[r].e = "cond" /\ Tr[r].v = Bool(TRUE)))}
\* the executions of the statements between the inner and the outer terminator
Between(q, kw) ==
    LET e1 == FirstEnd(BodyAt(q), Tr[q].id, kw)
    IN  {r \in EventsOf(q) : /\ Tr[r].e = "stmt"
                             /\ Tr[r].id \in (e1 + 1)..(FirstEnd(BodyAt(q), e1, kw) - 1)}

\* the body of the outer loop executed at q ends at the first terminator: no
\* iteration executes a line after it, the lines between it and the outer
\* terminator are executed when every iteration has begun and ended, and the
\* first of them is what follows the loop
EndsAtFirst(q, kw) ==
    LET i  == Tr[q].id
        e1 == FirstEnd(BodyAt(q), i, kw)
    IN  /\ \A r \in Between(q, kw) : \A r2 \in Rounds(q, i) : r2 < r
        /\ LinesRun(Window(q, i, e1)) \subseteq (i + 1)..(e1 - 1)
        /\ ContinuesAfter(q, i, e1)

\* C18: a while in a while, and a for in a for: the outer loop's body ends at
\* the inner loop's terminator, and the statements between that and the outer
\* terminator are executed once the outer loop has finished, not in its
\* iterations.
C18_BoundaryScan ==
    \A kw \in {"while", "for"} : \A q \in OuterLoops(kw) : EndsAtFirst(q, kw)

\* an outer while loop of two iterations, and the statement between the two
\* terminators executed once, after them
C18_Witness ==
    \E q \in OuterLoops("while") :
        /\ Cardinality(Rounds(q, Tr[q].id)) = 2
        /\ Cardinality(Between(q, "while")) = 1
        /\ last.st = "ok"

\* the statements lines, which follow line at of the body, executed as a body
\* of their own in the scope in which the statement of event q is executed
RunAlone(q, lines, at) ==
    Call("run_lines", <<lines, at, 0,
                        [heap |-> <<Tr[EntryOf(q)].g, Tr[q].sc>>, funcs |-> funcs,
                         loc |-> 2, inv |-> 0, ninv |-> 0, depth |-> 0, steps |-> 0,
                         tr |-> <<>>]>>)
Returned(tr, inv) == \E r \in DOMAIN tr : tr[r].e = "ret" /\ tr[r].inv = inv

\* the if executed at q took the branch under line h: what that did is what
\* the statements of the branch do as a body of their own, in returning or
\* not, in the value returned, and in the scope they leave
BranchAgrees(q, h) ==
    LET body == BodyAt(q)
        i    == Tr[q].id
        e    == MatchingEnd(body, i)
        out  == WindowEnd(q, i, e)
        ref  == RunAlone(q, SubSeq(body, h + 1, BranchEnd(body, i, h) - 1), h)
    IN  (ref.st = "ok" /\ Tr[out].x # "limit") =>
            /\ Tr[out].x # "err"
            /\ Returned(ref.m.tr, 0) <=> \E r \in Window(q, i, e) : Tr[r].e = "ret"
            /\ Returned(ref.m.tr, 0) => (Tr[out].e = "exit" /\ Tr[out].v = ref.val)
            /\ Tr[out].e = "stmt" => Tr[out].sc = Scope(ref.m)

\* the line under which the branch taken by the if executed at q begins
TakenBy(q) ==
    LET marks == HeadersOf(BodyAt(q), Tr[q].id) \cup ElseOf(BodyAt(q), Tr[q].id)
        W     == Window(q, Tr[q].id, MatchingEnd(BodyAt(q), Tr[q].id))
    IN  {h \in marks : \E b \in W :
            /\ Tr[b].e = "branch" /\ Tr[b].id = Tr[q].id
            /\ Tr[b].v.n = Cardinality({k \in marks : k < h})}

\* C19: whatever branch an if takes, executing the branch does what executing
\* its statements as a body of their own would do from the same scope.
C19_BranchAsBody ==
    \A q \in Openers("if") : \A h \in TakenBy(q) : BranchAgrees(q, h)

\* expr is name(a, b, ...) with name a registered algorithm and every argument
\* a number or a name bound in the scope sc or in the globals g
CallsAlgorithm(expr, sc, g) ==
    /\ Len(expr) >= 3 /\ expr[1] \in DOMAIN funcs
    /\ expr[2] = "(" /\ expr[Len(expr)] = ")"
    /\ \A i \in 3..(Len(expr) - 1) :
          IF (i % 2) = 0 THEN expr[i] = ","
          ELSE \/ expr[i] \in NumToks
               \/ expr[i] \in DOMAIN sc \cup DOMAIN g
\* the invocations made between the events lo and hi that are not made by
\* another invocation made in between
DirectCalls(lo, hi) ==
    {p \in CallEvents :
        /\ lo < p /\ p < hi
        /\ \A p2 \in CallEvents : (lo < p2 /\ p2 < p) => \E x \in ExitsOf(p2) : x < p}

\* expr, evaluated between the events lo and hi, invoked its algorithm once,
\* and what the invocation yielded (a value, no value, or an error) is what the
\* expression yielded
OnceBetween(expr, lo, hi, st, val, err) ==
    /\ Cardinality(DirectCalls(lo, hi)) = 1
    /\ \A p \in DirectCalls(lo, hi) :
          /\ Tr[p].x = expr[1]
          /\ \A x \in ExitsOf(p) :
                Tr[x].x = st /\ (st = "ok" => Tr[x].v = val) /\ (st = "err" => Tr[x].err = err)

\* C20: a call-form expression of a registered algorithm, whether it is the
\* expression of a case or of a statement, invokes the algorithm exactly once,
\* and yields what that invocation yields, also when that is no value.
C20_CalledOnce ==
    /\ (/\ last.case.type \in {"dsl_expr", "var_assign"}
        /\ CallsAlgorithm(last.case.expr, EmptyDict, globals)
        /\ last.st # "limit")
       => OnceBetween(last.case.expr, 0, Len(Tr) + 1, last.st, last.val, last.err)
    /\ \A q \in Stmts(HasRhs) :
          (/\ CallsAlgorithm(RhsOf(LineOf(q)), Tr[q].sc, Tr[EntryOf(q)].g)
           /\ Tr[NextOf(q)].x # "limit")
          => LET r == Tr[NextOf(q)]
             IN  OnceBetween(RhsOf(LineOf(q)), q, NextOf(q),
                             IF r.e = "exit" THEN "err" ELSE "ok", r.v, r.err)
====
